---- MODULE Spec2Model ----
(***************************************************************************)
(* Tag graph of tag-links (back/src): the Tag nodes, the HAS_TAG edges     *)
(* from URLs to tags, the PARENT_OF / COMPOSED_OF / RELATED_TO edges       *)
(* between tags, and the HTTP handlers of tag_controller.py,               *)
(* url_controller.py and auth_controller.py that read and write them       *)
(* through TagRepository and URLRepository.  Every handler is one atomic step: it takes the request, *)
(* runs the controller code and the Cypher statements it issues, and       *)
(* leaves the response.  Respond hands the response back, after which the  *)
(* next request is served.                                                 *)
(***************************************************************************)
EXTENDS Integers, Sequences, FiniteSets, TLC

VARIABLES
    users,                  \* ids of the User nodes
    tags,                   \* Tag nodes: tag id -> properties, for the ids that exist
    has_tag,                \* number of [:HAS_TAG] edges per <<resource, tag>>, the resource a URL or a File
    relations,              \* number of (:Tag)-[:kind]->(:Tag) edges per <<kind, from, to>>
    tag_user_name_unique,   \* the constraint of migrations/add_unique_constraint_tags.py is installed
    request,                \* the request being answered (NoRequest when idle)
    response,               \* the response to it
    before,                 \* the graph as it was when the request arrived
    merging,                \* two merge requests being served at the same time
    call                    \* a call of the Levenshtein service: its arguments and result

vars == <<users, tags, has_tag, relations, tag_user_name_unique, request, response, before,
          merging, call>>

----------------------------------------------------------------------------
(* Bounds of the model *)

MaxTags == 2
MaxUrls == 1
MaxSrc == 2
MaxFiles == 1
MaxStr == 3
MaxItems == 3
MaxOwned == 2

TagIds == 1..MaxTags
UrlIds == 1..MaxUrls
FileIds == (MaxUrls + 1)..(MaxUrls + MaxFiles)
ResourceIds == UrlIds \cup FileIds
Users == {"u1", "u2"}
Colors == {"#111", "#222"}

(* Names *)
DOCUMENT_TYPE_TAG_COLOR == "#92400E"
SYSTEM_TAGS ==
    <<[name |-> "Favoris", color |-> "#ef4444"],
      [name |-> "Partage", color |-> "#3b82f6"]>>
DOCUMENT_TYPES == <<"Invoice", "Receipt">>
SYSTEM_TAG_NAMES == {"Favoris", "Partage"} \cup {DOCUMENT_TYPES[i] : i \in DOMAIN DOCUMENT_TYPES}
PlainNames == {"a", "b", "c"}

(* str.lower() on the names of the model *)
lower(name) ==
    CASE name = "Favoris" -> "favoris"
      [] name = "Partage" -> "partage"
      [] name = "Invoice" -> "invoice"
      [] name = "Receipt" -> "receipt"
      [] OTHER -> name

(* ORDER BY t.name: the names of the model in ascending order *)
NameOrder ==
    <<"Favoris", "Invoice", "Partage", "Receipt", "a", "b", "c", "favoris", "m">>
NameRank(name) == CHOOSE i \in DOMAIN NameOrder : NameOrder[i] = name

PARENT_OF == "PARENT_OF"
COMPOSED_OF == "COMPOSED_OF"
RELATED_TO == "RELATED_TO"
valid_types == {PARENT_OF, COMPOSED_OF, RELATED_TO}

(* HTTP status codes used by the controllers *)
HTTP_200_OK == 200
HTTP_201_CREATED == 201
HTTP_204_NO_CONTENT == 204
HTTP_400_BAD_REQUEST == 400
HTTP_403_FORBIDDEN == 403
HTTP_404_NOT_FOUND == 404
HTTP_500_INTERNAL_SERVER_ERROR == 500

----------------------------------------------------------------------------
(* Generic helpers *)

Range(s) == {s[i] : i \in DOMAIN s}

SeqsUpTo(S, n) == UNION {[1..k -> S] : k \in 0..n}

Min(S) == CHOOSE x \in S : \A y \in S : x <= y

(* The graph as one value *)
Graph(t, h, r) == [tags |-> t, has_tag |-> h, relations |-> r]
DB == Graph(tags, has_tag, relations)
EmptyGraph ==
    Graph(<<>>,
          [e \in ResourceIds \X TagIds |-> 0],
          [e \in valid_types \X TagIds \X TagIds |-> 0])

None == "None"

NoRequest ==
    [op |-> "none", user |-> None, id |-> 0, to |-> 0, kind |-> None,
     ids |-> <<>>, name |-> None, color |-> None, is_system |-> FALSE]

NoResponse ==
    [status |-> 0, id |-> 0, urls_updated |-> 0, tags_merged |-> 0]

Reply(status) == [NoResponse EXCEPT !.status = status]

(* The outcome of a handler: the graph it leaves and the response *)
Outcome(db, resp) == [db |-> db, response |-> resp]

----------------------------------------------------------------------------
(* TagRepository *)

Tag(name, color, user_id, is_system) ==
    [name |-> name, color |-> color, user_id |-> user_id, is_system |-> is_system]

(* MATCH (t:Tag {id: $id}) RETURN t *)
get_by_id(db, tag_id) ==
    IF tag_id \in DOMAIN db.tags THEN {tag_id} ELSE {}

(* MATCH (u:User {id})-[:OWNS]->(t:Tag) WHERE t.name = $name: the ids that match *)
get_by_name_and_user(db, name, user_id) ==
    {t \in DOMAIN db.tags : db.tags[t].user_id = user_id /\ db.tags[t].name = name}

(* REQUIRE (t.user_id, t.name) IS UNIQUE, as the store checks it on a write *)
UniqueNames(t) ==
    \A x, y \in DOMAIN t :
        (t[x].user_id = t[y].user_id /\ t[x].name = t[y].name) => x = y

ConstraintViolated(unique, t) == unique /\ ~UniqueNames(t)

(* DETACH DELETE of the Tag nodes in S: the nodes and every edge on them *)
DetachDelete(db, S) ==
    Graph([t \in DOMAIN db.tags \ S |-> db.tags[t]],
          [e \in DOMAIN db.has_tag |-> IF e[2] \in S THEN 0 ELSE db.has_tag[e]],
          [e \in DOMAIN db.relations |->
              IF e[2] \in S \/ e[3] \in S THEN 0 ELSE db.relations[e]])

(* TagRepository.create: the existing tag of that name, or a new node *)
RepoCreateNode(db, new_id, name, color, user_id, is_system) ==
    [db EXCEPT !.tags =
        [t \in DOMAIN db.tags \cup {new_id} |->
            IF t = new_id THEN Tag(name, color, user_id, is_system) ELSE db.tags[t]]]

(* create as an upsert: an existing tag takes the color and is_system of   *)
(* the request                                                             *)
RepoCreate_Upsert(db, new_id, name, color, user_id, is_system) ==
    LET existing == get_by_name_and_user(db, name, user_id) IN
    IF existing # {}
    THEN {[db |-> [db EXCEPT !.tags[t] = Tag(name, color, user_id, is_system)],
           id |-> t] : t \in existing}
    ELSE {[db |-> RepoCreateNode(db, new_id, name, color, user_id, is_system),
           id |-> new_id]}

(* TagRepository.create: the tag get_by_name_and_user finds is returned as *)
(* it is, and a node is created only when none is found                    *)
RepoCreate(db, new_id, name, color, user_id, is_system) ==
    LET existing == get_by_name_and_user(db, name, user_id) IN
    IF existing # {}
    THEN {[db |-> db, id |-> t] : t \in existing}
    ELSE {[db |-> RepoCreateNode(db, new_id, name, color, user_id, is_system),
           id |-> new_id]}

(* TagRepository.get_all_by_user *)
get_all_by_user(db, user_id) == {t \in DOMAIN db.tags : db.tags[t].user_id = user_id}

(* TagRepository.update: SET the fields that are not None *)
RepoUpdate(db, tag_id, name, color) ==
    IF tag_id \notin DOMAIN db.tags \/ (name = None /\ color = None)
    THEN db
    ELSE [db EXCEPT !.tags[tag_id] =
            [@ EXCEPT !.name = IF name = None THEN @ ELSE name,
                      !.color = IF color = None THEN @ ELSE color]]

(* TagRepository.delete *)
RepoDelete(db, tag_id) == DetachDelete(db, {tag_id} \cap DOMAIN db.tags)


(* TagRepository.merge_tags: the Cypher statement, clause by clause.  The  *)
(* result is the graph it leaves and the record it returns (None when the  *)
(* statement returns no row).                                              *)

(* Step 1: MATCH (targetTag:Tag {id: $target_tag_id}) SET name, color *)
MergeSetTarget(db, target_tag_id, new_name, new_color) ==
    IF target_tag_id \in DOMAIN db.tags
    THEN [db EXCEPT !.tags[target_tag_id] =
            [@ EXCEPT !.name = new_name, !.color = new_color]]
    ELSE db

(* Step 2: OPTIONAL MATCH (url:URL)-[:HAS_TAG]->(sourceTag:Tag)            *)
(*         WHERE sourceTag.id IN $all_source_ids                           *)
(* the <<url, sourceTag>> rows, after DISTINCT and WHERE url IS NOT NULL   *)
MergeUrlRows(db, all_source_ids) ==
    {e \in UrlIds \X (DOMAIN db.tags \cap all_source_ids) : db.has_tag[e] > 0}

(* Step 3 left out: no edge to the target is created *)
MergeLinkTarget_Skipped(db, rows, target_tag_id) == db

(* Step 3: MERGE (url)-[:HAS_TAG]->(targetTag) for every url of the rows *)
MergeLinkTarget(db, rows, target_tag_id) ==
    [db EXCEPT !.has_tag =
        [e \in DOMAIN db.has_tag |->
            IF e[2] = target_tag_id /\ db.has_tag[e] = 0 /\ (\E r \in rows : r[1] = e[1])
            THEN 1 ELSE db.has_tag[e]]]

(* Step 4 without the two conditions of its WHERE: the target's rows stay *)
MergeOldRows_Unfiltered(rows, target_tag_id, other_source_ids) == rows

(* Step 4: UNWIND allSourceTags; WHERE sourceTag.id <> targetTag.id AND    *)
(*         sourceTag.id IN $other_source_ids: the rows that remain         *)
MergeOldRows(rows, target_tag_id, other_source_ids) ==
    {r \in rows : r[2] # target_tag_id /\ r[2] \in other_source_ids}

(* every HAS_TAG edge of the URLs of the rows deleted *)
MergeDeleteOld_AllEdges(db, old_rows) ==
    [db EXCEPT !.has_tag =
        [e \in DOMAIN db.has_tag |->
            IF \E r \in old_rows : r[1] = e[1] THEN 0 ELSE db.has_tag[e]]]

(*         OPTIONAL MATCH (url)-[oldRel:HAS_TAG]->(sourceTag) DELETE oldRel *)
MergeDeleteOld(db, old_rows) ==
    [db EXCEPT !.has_tag =
        [e \in DOMAIN db.has_tag |-> IF e \in old_rows THEN 0 ELSE db.has_tag[e]]]

(* Steps 5 and 6: count(DISTINCT url), collect(DISTINCT sourceTag) over    *)
(* the remaining rows, grouped by targetTag; DETACH DELETE the collected   *)
(* tags; RETURN tags_merged, urls_updated.  With no remaining row the      *)
(* statement returns no record and merge_tags answers 0 and 0.             *)
MergeRecord(old_rows) ==
    IF old_rows = {}
    THEN {}
    ELSE {[urls_updated |-> Cardinality({r[1] : r \in old_rows}),
           tags_merged |-> Cardinality({r[2] : r \in old_rows})]}

MergeResult(record) ==
    IF record = {}
    THEN [tags_merged |-> 0, urls_updated |-> 0]
    ELSE CHOOSE r \in record : TRUE

RepoMergeTags(db, unique, source_tag_ids, target_tag_id, new_name, new_color) ==
    LET all_source_ids == Range(source_tag_ids)
        other_source_ids == {t \in all_source_ids : t # target_tag_id}
        db1 == MergeSetTarget(db, target_tag_id, new_name, new_color)
        rows == IF target_tag_id \in DOMAIN db.tags
                THEN MergeUrlRows(db1, all_source_ids) ELSE {}
        db3 == MergeLinkTarget(db1, rows, target_tag_id)
        old_rows == MergeOldRows(rows, target_tag_id, other_source_ids)
        db4 == MergeDeleteOld(db3, old_rows)
        db6 == DetachDelete(db4, {r[2] : r \in old_rows})
        result == MergeResult(MergeRecord(old_rows))
        raised == ConstraintViolated(unique, db1.tags)
    IN  [db |-> IF raised THEN db ELSE db6,
         raised |-> raised,
         tags_merged |-> result.tags_merged,
         urls_updated |-> result.urls_updated]

----------------------------------------------------------------------------
(* tag_controller.py *)

(* uuid.uuid4(): an identifier no node carries.  DETACH DELETE leaves no   *)
(* reference to a deleted id, so the least free id stands for a fresh one. *)
NewTagId(db) == Min(TagIds \ DOMAIN db.tags)

(* POST /tags/ *)
create_tag(db, req) ==
    {Outcome(r.db, [Reply(HTTP_201_CREATED) EXCEPT !.id = r.id]) :
        r \in RepoCreate(db, NewTagId(db), req.name, req.color, req.user, req.is_system)}

(* PUT /tags/{tag_id} without the is_system check *)
update_tag_Unprotected(db, unique, req) ==
    IF get_by_id(db, req.id) = {} THEN Outcome(db, Reply(HTTP_404_NOT_FOUND))
    ELSE LET updated == RepoUpdate(db, req.id, req.name, req.color) IN
         IF ConstraintViolated(unique, updated.tags)
         THEN Outcome(db, Reply(HTTP_500_INTERNAL_SERVER_ERROR))
         ELSE Outcome(updated, [Reply(HTTP_200_OK) EXCEPT !.id = req.id])

(* PUT /tags/{tag_id} *)
update_tag(db, unique, req) ==
    IF get_by_id(db, req.id) = {} THEN Outcome(db, Reply(HTTP_404_NOT_FOUND))
    ELSE IF db.tags[req.id].is_system THEN Outcome(db, Reply(HTTP_403_FORBIDDEN))
    ELSE LET updated == RepoUpdate(db, req.id, req.name, req.color) IN
         IF ConstraintViolated(unique, updated.tags)
         THEN Outcome(db, Reply(HTTP_500_INTERNAL_SERVER_ERROR))
         ELSE Outcome(updated, [Reply(HTTP_200_OK) EXCEPT !.id = req.id])

(* DELETE /tags/{tag_id} *)
delete_tag(db, req) ==
    IF get_by_id(db, req.id) # {} /\ db.tags[req.id].is_system
    THEN Outcome(db, Reply(HTTP_403_FORBIDDEN))
    ELSE IF get_by_id(db, req.id) = {}
    THEN Outcome(db, Reply(HTTP_404_NOT_FOUND))
    ELSE Outcome(RepoDelete(db, req.id), Reply(HTTP_204_NO_CONTENT))

(* the validation loop without its test of is_system *)
MergeCheckTag_NoSystemCheck(db, user_id, tag_id) ==
    IF get_by_id(db, tag_id) = {} THEN HTTP_404_NOT_FOUND
    ELSE IF db.tags[tag_id].user_id # user_id THEN HTTP_403_FORBIDDEN
    ELSE 0

(* POST /tags/merge: the checks of the validation loop on one source id;  *)
(* 0 when the id passes                                                    *)
MergeCheckTag(db, user_id, tag_id) ==
    IF get_by_id(db, tag_id) = {} THEN HTTP_404_NOT_FOUND
    ELSE IF db.tags[tag_id].user_id # user_id THEN HTTP_403_FORBIDDEN
    ELSE IF db.tags[tag_id].is_system THEN HTTP_403_FORBIDDEN
    ELSE 0

(* the loop over source_tag_ids, which stops at the first id it rejects *)
RECURSIVE MergeValidate(_, _, _)
MergeValidate(db, user_id, ids) ==
    IF ids = <<>> THEN 0
    ELSE IF MergeCheckTag(db, user_id, Head(ids)) # 0
    THEN MergeCheckTag(db, user_id, Head(ids))
    ELSE MergeValidate(db, user_id, Tail(ids))

(* POST /tags/merge up to "# Perform the merge": the length test and the   *)
(* validation loop, each get_by_id a read in a session of its own; the     *)
(* status raised, 0 when the request passes                                *)
merge_tags_validate(db, req) ==
    IF Len(req.ids) < 2 THEN HTTP_400_BAD_REQUEST
    ELSE MergeValidate(db, req.user, req.ids)

(* POST /tags/merge from "# Perform the merge": repo.merge_tags, one        *)
(* statement in one session, and the response built from its result        *)
merge_tags_perform(db, unique, req) ==
    LET target_tag_id == req.ids[1]
        result == RepoMergeTags(db, unique, req.ids, target_tag_id, req.name, req.color)
    IN  IF result.raised
        THEN Outcome(db, Reply(HTTP_500_INTERNAL_SERVER_ERROR))
        ELSE Outcome(result.db,
                     [Reply(HTTP_200_OK) EXCEPT !.id = target_tag_id,
                                                !.urls_updated = result.urls_updated,
                                                !.tags_merged = result.tags_merged])

merge_tags(db, unique, req) ==
    IF merge_tags_validate(db, req) # 0
    THEN Outcome(db, Reply(merge_tags_validate(db, req)))
    ELSE merge_tags_perform(db, unique, req)


(* CREATE in place of MERGE: one more edge at every call *)
MergeEdge_Create(db, kind, from_id, to_id) ==
    [db EXCEPT !.relations[<<kind, from_id, to_id>>] = @ + 1]

(* TagRepository.create_parent_of_relation, create_composed_of_relation    *)
(* and create_related_to_relation: MATCH both tags, MERGE the edge.        *)
(* The result is the graph and whether a row was returned.                 *)
MergeEdge(db, kind, from_id, to_id) ==
    [db EXCEPT !.relations[<<kind, from_id, to_id>>] = IF @ = 0 THEN 1 ELSE @]

RepoCreateRelation(db, kind, from_id, to_id) ==
    IF from_id \in DOMAIN db.tags /\ to_id \in DOMAIN db.tags
    THEN [db |-> MergeEdge(db, kind, from_id, to_id), found |-> TRUE]
    ELSE [db |-> db, found |-> FALSE]

RECURSIVE Sum(_, _)
Sum(f, S) == IF S = {} THEN 0
             ELSE LET x == CHOOSE x \in S : TRUE IN f[x] + Sum(f, S \ {x})

RECURSIVE Product(_, _)
Product(f, S) == IF S = {} THEN 1
                 ELSE LET x == CHOOSE x \in S : TRUE IN f[x] * Product(f, S \ {x})

(* TagRepository.delete_relation puts relation_type into the text of the   *)
(* statement, [r:{relation_type}]: the edge types the pattern then matches *)
(* (A|B matches both types, a type no tag edge has matches nothing)        *)
InjectedTypes == {"PARENT_OF|COMPOSED_OF", "HAS_TAG"}

RelationTypesOf(relation_type) ==
    CASE relation_type \in valid_types -> {relation_type}
      [] relation_type = "PARENT_OF|COMPOSED_OF" -> {PARENT_OF, COMPOSED_OF}
      [] OTHER -> {}

(* the statement with an untyped, undirected pattern: every edge between   *)
(* the two tags is deleted                                                 *)
RepoDeleteRelation_AnyEdge(db, from_id, to_id, relation_type) ==
    LET matched == {e \in DOMAIN db.relations :
                       /\ {e[2], e[3]} = {from_id, to_id}
                       /\ db.relations[e] > 0}
    IN [db |-> [db EXCEPT !.relations =
                   [e \in DOMAIN db.relations |->
                       IF e \in matched THEN 0 ELSE db.relations[e]]],
        deleted |-> Sum(db.relations, matched)]

(* TagRepository.delete_relation: DELETE every edge the pattern matches    *)
(* from -> to, RETURN count(r)                                             *)
RepoDeleteRelation(db, from_id, to_id, relation_type) ==
    LET matched == {e \in DOMAIN db.relations :
                       /\ e[1] \in RelationTypesOf(relation_type)
                       /\ e[2] = from_id /\ e[3] = to_id
                       /\ db.relations[e] > 0}
    IN [db |-> [db EXCEPT !.relations =
                   [e \in DOMAIN db.relations |->
                       IF e \in matched THEN 0 ELSE db.relations[e]]],
        deleted |-> Sum(db.relations, matched)]

(* the handlers without their comparison of the two ids *)
create_relation_NoSelfCheck(db, kind, req) ==
    LET r == RepoCreateRelation(db, kind, req.id, req.to) IN
    IF ~r.found THEN Outcome(db, Reply(HTTP_404_NOT_FOUND))
    ELSE Outcome(r.db, Reply(HTTP_201_CREATED))

(* POST /tags/{parent_id}/parent-of/{child_id}, .../composed-of/...,       *)
(* .../related-to/...: the three handlers differ in the edge type only     *)
create_relation(db, kind, req) ==
    IF req.id = req.to THEN Outcome(db, Reply(HTTP_400_BAD_REQUEST))
    ELSE LET r == RepoCreateRelation(db, kind, req.id, req.to) IN
         IF ~r.found THEN Outcome(db, Reply(HTTP_404_NOT_FOUND))
         ELSE Outcome(r.db, Reply(HTTP_201_CREATED))

create_parent_of_relation(db, req) == create_relation(db, PARENT_OF, req)
create_composed_of_relation(db, req) == create_relation(db, COMPOSED_OF, req)
create_related_to_relation(db, req) == create_relation(db, RELATED_TO, req)

(* the handler without its test of relation_type *)
delete_relation_Unvalidated(db, req) ==
    LET r == RepoDeleteRelation(db, req.id, req.to, req.kind) IN
    IF r.deleted = 0 THEN Outcome(db, Reply(HTTP_404_NOT_FOUND))
    ELSE Outcome(r.db, Reply(HTTP_204_NO_CONTENT))

(* DELETE /tags/{from_id}/{relation_type}/{to_id} *)
delete_relation(db, req) ==
    IF req.kind \notin valid_types THEN Outcome(db, Reply(HTTP_400_BAD_REQUEST))
    ELSE LET r == RepoDeleteRelation(db, req.id, req.to, req.kind) IN
         IF r.deleted = 0 THEN Outcome(db, Reply(HTTP_404_NOT_FOUND))
         ELSE Outcome(r.db, Reply(HTTP_204_NO_CONTENT))

(* TagRepository.get_with_relations.  Each OPTIONAL MATCH multiplies the   *)
(* rows by its matches (one row with null when there is none); the five    *)
(* patterns, seen from tag t towards the other tag o:                      *)
RelationPatterns == {"parents", "children", "composed_of", "part_of", "related_to"}

PatternMatches(db, pattern, t, o) ==
    CASE pattern = "parents"     -> db.relations[<<PARENT_OF, o, t>>]
      [] pattern = "children"    -> db.relations[<<PARENT_OF, t, o>>]
      [] pattern = "composed_of" -> db.relations[<<COMPOSED_OF, t, o>>]
      [] pattern = "part_of"     -> db.relations[<<COMPOSED_OF, o, t>>]
      [] pattern = "related_to"  -> IF o = t THEN db.relations[<<RELATED_TO, t, t>>]
                                    ELSE db.relations[<<RELATED_TO, t, o>>]
                                         + db.relations[<<RELATED_TO, o, t>>]

(* rows a pattern contributes: its matches, or one row of null *)
PatternRows(db, pattern, t) ==
    LET n == Sum([o \in TagIds |-> PatternMatches(db, pattern, t, o)], TagIds)
    IN IF n = 0 THEN 1 ELSE n

(* collect(x): how many times tag o is in the list, one per row holding it *)
CollectAll(db, pattern, t, o) ==
    PatternMatches(db, pattern, t, o)
      * Product([q \in RelationPatterns |-> PatternRows(db, q, t)],
                RelationPatterns \ {pattern})

(* collect(x) in place of collect(DISTINCT x) *)
CollectDistinct_PerRow(db, pattern, t, o) ==
    PatternMatches(db, pattern, t, o)
      * Product([q \in RelationPatterns |-> PatternRows(db, q, t)],
                RelationPatterns \ {pattern})

(* collect(DISTINCT x): tag o is in the list once if a row holds it *)
CollectDistinct(db, pattern, t, o) ==
    IF CollectAll(db, pattern, t, o) > 0 THEN 1 ELSE 0

(* the five lists of the answer, as the number of entries per tag; {} when *)
(* the tag does not exist                                                  *)
get_with_relations(db, tag_id) ==
    IF tag_id \notin DOMAIN db.tags THEN {}
    ELSE {[pattern \in RelationPatterns |->
              [o \in TagIds |-> CollectDistinct(db, pattern, tag_id, o)]]}

(* GET /tags/{tag_id}/relations: 404 when the repository returns None; the *)
(* body of the 200 answer is get_with_relations of the graph, which the    *)
(* handler leaves as it is                                                 *)
get_tag_with_relations(db, req) ==
    IF get_with_relations(db, req.id) = {}
    THEN Outcome(db, Reply(HTTP_404_NOT_FOUND))
    ELSE Outcome(db, [Reply(HTTP_200_OK) EXCEPT !.id = req.id])

----------------------------------------------------------------------------
(* url_controller.py / URLRepository *)

(* URLRepository.add_tag: MATCH url, MATCH tag, MERGE (url)-[:HAS_TAG]->(tag) *)
RepoAddTag(db, url_id, tag_id) ==
    IF tag_id \in DOMAIN db.tags
    THEN [db |-> [db EXCEPT !.has_tag[<<url_id, tag_id>>] = IF @ = 0 THEN 1 ELSE @],
          found |-> TRUE]
    ELSE [db |-> db, found |-> FALSE]

(* POST /urls/{url_id}/tags/{tag_id} *)
add_tag_to_url(db, req) ==
    LET r == RepoAddTag(db, req.to, req.id) IN
    IF ~r.found THEN Outcome(db, Reply(HTTP_404_NOT_FOUND))
    ELSE Outcome(r.db, Reply(HTTP_201_CREATED))


(* FileRepository.add_tag: MATCH the File and the Tag, MERGE the edge *)
FileRepoAddTag(db, file_id, tag_id) ==
    IF tag_id \in DOMAIN db.tags
    THEN [db |-> [db EXCEPT !.has_tag[<<file_id, tag_id>>] = IF @ = 0 THEN 1 ELSE @],
          found |-> TRUE]
    ELSE [db |-> db, found |-> FALSE]

(* POST /files/{file_id}/tags/{tag_id} *)
add_tag_to_file(db, req) ==
    LET r == FileRepoAddTag(db, req.to, req.id) IN
    IF ~r.found THEN Outcome(db, Reply(HTTP_404_NOT_FOUND))
    ELSE Outcome(r.db, Reply(HTTP_201_CREATED))

(* URLRepository.remove_tag: DELETE every HAS_TAG edge url -> tag,          *)
(* RETURN count(r)                                                         *)
RepoRemoveTag(db, url_id, tag_id) ==
    [db |-> [db EXCEPT !.has_tag[<<url_id, tag_id>>] = 0],
     deleted |-> db.has_tag[<<url_id, tag_id>>]]

(* DELETE /urls/{url_id}/tags/{tag_id} *)
remove_tag_from_url(db, req) ==
    LET r == RepoRemoveTag(db, req.to, req.id) IN
    IF r.deleted = 0 THEN Outcome(db, Reply(HTTP_404_NOT_FOUND))
    ELSE Outcome(r.db, Reply(HTTP_204_NO_CONTENT))

(* URLRepository.update with a list tag_ids: every HAS_TAG edge of the URL *)
(* is deleted, then UNWIND $tag_ids ... MATCH (t:Tag) CREATE makes one     *)
(* edge per entry of the list whose tag exists                             *)
RepoUpdateUrl(db, url_id, tag_ids) ==
    [db EXCEPT !.has_tag =
        [e \in DOMAIN db.has_tag |->
            IF e[1] # url_id THEN db.has_tag[e]
            ELSE IF e[2] \notin DOMAIN db.tags THEN 0
            ELSE Cardinality({i \in DOMAIN tag_ids : tag_ids[i] = e[2]})]]

(* PUT /urls/{url_id} with tag_ids, for a URL that is stored *)
update_url(db, req) ==
    Outcome(RepoUpdateUrl(db, req.to, req.ids), Reply(HTTP_200_OK))

(* The document-type rule of a URL update: every HAS_TAG edge of the URL to *)
(* a tag with a document-type name is removed, then, when a document type  *)
(* is given, the owner's tag of that name is found or created and attached *)
manage_document_type_tag(db, url_id, document_type, user_id) ==
    LET names == {DOCUMENT_TYPES[i] : i \in DOMAIN DOCUMENT_TYPES}
        cleared == [db EXCEPT !.has_tag =
                       [e \in DOMAIN db.has_tag |->
                           IF e[1] = url_id /\ e[2] \in DOMAIN db.tags
                                            /\ db.tags[e[2]].name \in names
                           THEN 0 ELSE db.has_tag[e]]]
    IN IF document_type = None THEN {cleared}
       ELSE {RepoAddTag(r.db, url_id, r.id).db :
                r \in RepoCreate(cleared, Min(TagIds \ DOMAIN cleared.tags),
                                 document_type, DOCUMENT_TYPE_TAG_COLOR, user_id, TRUE)}

(* PUT /urls/{url_id} with a document type and no tag_ids *)
set_document_type(db, req) ==
    {Outcome(d, Reply(HTTP_200_OK)) :
        d \in manage_document_type_tag(db, req.to, req.name, req.user)}

(* the loop "for ... if name not in existing_tag_names: repo.create(...)"  *)
(* of the initialisation handlers, over a list of [name, color]            *)
RECURSIVE CreateMissing(_, _, _, _, _)
CreateMissing(db, user_id, missing, existing_tag_names, is_system) ==
    IF missing = <<>> THEN db
    ELSE IF Head(missing).name \in existing_tag_names
    THEN CreateMissing(db, user_id, Tail(missing), existing_tag_names, is_system)
    ELSE LET created == CHOOSE r \in RepoCreate(db, Min(TagIds \ DOMAIN db.tags),
                                    Head(missing).name, Head(missing).color,
                                    user_id, is_system) : TRUE
         IN CreateMissing(created.db, user_id, Tail(missing),
                          existing_tag_names, is_system)

TagNamesOf(db, user_id) == {db.tags[t].name : t \in get_all_by_user(db, user_id)}

DocumentTypeTags ==
    [i \in DOMAIN DOCUMENT_TYPES |->
        [name |-> DOCUMENT_TYPES[i], color |-> DOCUMENT_TYPE_TAG_COLOR]]

(* how many tags the loop creates *)
MissingCount(db, user_id, missing) ==
    Cardinality({i \in DOMAIN missing : missing[i].name \notin TagNamesOf(db, user_id)})

(* auth_controller.initialize_document_type_tags, run by register: the     *)
(* TagCreate carries no is_system, which defaults to False                 *)
auth_initialize_document_type_tags(db, user_id) ==
    CreateMissing(db, user_id, DocumentTypeTags, TagNamesOf(db, user_id), FALSE)

(* POST /auth/register *)
register(db, registered, req) ==
    IF req.user \in registered THEN Outcome(db, Reply(HTTP_400_BAD_REQUEST))
    ELSE Outcome(auth_initialize_document_type_tags(db, req.user),
                 Reply(HTTP_201_CREATED))

(* POST /tags/initialize-document-types *)
initialize_document_type_tags(db, req) ==
    Outcome(CreateMissing(db, req.user, DocumentTypeTags,
                          TagNamesOf(db, req.user), TRUE),
            Reply(HTTP_201_CREATED))

(* POST /tags/initialize-system-tags *)
initialize_system_tags(db, req) ==
    Outcome(CreateMissing(db, req.user, SYSTEM_TAGS,
                          TagNamesOf(db, req.user), TRUE),
            Reply(HTTP_201_CREATED))

(* POST /tags/migrate-system-tags *)
migrate_system_tags(db, req) ==
    Outcome([db EXCEPT !.tags =
                [t \in DOMAIN db.tags |->
                    IF /\ t \in get_all_by_user(db, req.user)
                       /\ db.tags[t].name \in SYSTEM_TAG_NAMES
                       /\ ~db.tags[t].is_system
                    THEN [db.tags[t] EXCEPT !.is_system = TRUE]
                    ELSE db.tags[t]]],
            Reply(HTTP_200_OK))

(* bulk_import_urls: tag_map = {tag.name.lower(): tag.id for tag in        *)
(* user_tags}; of the tags with one lower-case name the last in name order *)
(* stays in the map                                                        *)
tag_map(db, user_id, tag_name_lower) ==
    LET same == {t \in get_all_by_user(db, user_id) :
                    lower(db.tags[t].name) = tag_name_lower}
    IN {t \in same : \A o \in same :
            NameRank(db.tags[o].name) <= NameRank(db.tags[t].name)}

(* URLRepository.update with tag_ids: every HAS_TAG edge of the URL is     *)
(* deleted and one is created per tag id                                   *)
RepoUpdateUrlTags(db, url_id, tag_ids) ==
    [db EXCEPT !.has_tag =
        [e \in DOMAIN db.has_tag |->
            IF e[1] # url_id THEN db.has_tag[e]
            ELSE IF e[2] \in tag_ids /\ e[2] \in DOMAIN db.tags THEN 1 ELSE 0]]

(* POST /urls/bulk-import with one link, already stored, and one tag name: *)
(* the tag is found in tag_map or created, then merged into the tags of    *)
(* the URL                                                                 *)
bulk_import_urls(db, req) ==
    LET found == tag_map(db, req.user, lower(req.name))
        is_system == req.name \in SYSTEM_TAG_NAMES
        links == IF found # {}
                 THEN {[db |-> db, id |-> t] : t \in found}
                 ELSE RepoCreate(db, Min(TagIds \ DOMAIN db.tags), req.name,
                                 req.color, req.user, is_system)
        existing_tag_ids == {t \in DOMAIN db.tags : db.has_tag[<<req.to, t>>] > 0}
    IN {Outcome(RepoUpdateUrlTags(l.db, req.to, existing_tag_ids \cup {l.id}),
                Reply(HTTP_200_OK)) : l \in links}

----------------------------------------------------------------------------
(* services/levenshtein_service.py.  A string is the sequence of its       *)
(* characters.                                                             *)

Chars == {"a", "b", "A"}
Strings == SeqsUpTo(Chars, MaxStr)

(* str.lower(), character by character *)
char_lower(c) == IF c = "A" THEN "a" ELSE c
str_lower(s) == [i \in DOMAIN s |-> char_lower(s[i])]

Min3(x, y, z) == Min({x, y, z})
(* the smaller of the two lengths in place of the greater *)
Max2_Smaller(x, y) == IF x >= y THEN y ELSE x

Max2(x, y) == IF x >= y THEN x ELSE y

(* every substitution costs 1, equal characters too *)
SubstitutionCost_Always(c1, c2) == 1

(* cost = 0 if s1[i - 1] == s2[j - 1] else 1 *)
SubstitutionCost(c1, c2) == IF c1 = c2 THEN 0 ELSE 1

(* a deletion counted as two edits *)
FillCell_CostlyDeletion(matrix, s1, s2, i, j) ==
    [matrix EXCEPT ![<<i, j>>] =
        Min3(matrix[<<i - 1, j>>] + 2,
             matrix[<<i, j - 1>>] + 1,
             matrix[<<i - 1, j - 1>>] + SubstitutionCost(s1[i], s2[j]))]

(* matrix[i][j] = min(deletion, insertion, substitution) *)
FillCell(matrix, s1, s2, i, j) ==
    [matrix EXCEPT ![<<i, j>>] =
        Min3(matrix[<<i - 1, j>>] + 1,
             matrix[<<i, j - 1>>] + 1,
             matrix[<<i - 1, j - 1>>] + SubstitutionCost(s1[i], s2[j]))]

(* the two loops "for i in range(1, len1 + 1): for j in range(1, len2 + 1)" *)
(* from cell <<i, j>> onwards                                              *)
RECURSIVE FillFrom(_, _, _, _, _)
FillFrom(matrix, s1, s2, i, j) ==
    IF i > Len(s1) \/ Len(s2) = 0 THEN matrix
    ELSE LET filled == FillCell(matrix, s1, s2, i, j) IN
         IF j < Len(s2) THEN FillFrom(filled, s1, s2, i, j + 1)
         ELSE FillFrom(filled, s1, s2, i + 1, 1)

(* the first row filled with 2 * j *)
BaseMatrix_DoubleRow(len1, len2) ==
    [c \in (0..len1) \X (0..len2) |->
        IF c[2] = 0 THEN c[1] ELSE IF c[1] = 0 THEN 2 * c[2] ELSE 0]

(* the matrix after "Fill first column and row" *)
BaseMatrix(len1, len2) ==
    [c \in (0..len1) \X (0..len2) |->
        IF c[2] = 0 THEN c[1] ELSE IF c[1] = 0 THEN c[2] ELSE 0]

levenshtein_distance(a, b) ==
    LET s1 == str_lower(a)
        s2 == str_lower(b)
        matrix == FillFrom(BaseMatrix(Len(s1), Len(s2)), s1, s2, 1, 1)
    IN  matrix[<<Len(s1), Len(s2)>>]

(* A score: the number num / den.  1.0 - (distance / n) is (n - distance) / n *)
Score(num, den) == [num |-> num, den |-> den]
ScoreEqual(x, y) == x.num * y.den = y.num * x.den
ScoreGreater(x, y) == x.num * y.den > y.num * x.den

(* text_lower[i:i + query_len], i counted from 0 *)
Slice(text, i, n) == [k \in 1..n |-> text[i + k]]

(* the window loop stops one offset early *)
WindowStarts_Short(text_len, query_len) == text_len - query_len - 1

(* range(len(text_lower) - query_len + 1): the last value of i *)
WindowStarts(text_len, query_len) == text_len - query_len

(* the loop over the windows from offset i on, with best_similarity so far  *)
RECURSIVE BestFrom(_, _, _, _)
BestFrom(query_lower, text_lower, i, best_similarity) ==
    IF i > WindowStarts(Len(text_lower), Len(query_lower)) THEN best_similarity
    ELSE LET query_len == Len(query_lower)
             substring == Slice(text_lower, i, query_len)
             distance == levenshtein_distance(query_lower, substring)
             similarity == Score(query_len - distance, query_len)
             best == IF ScoreGreater(similarity, best_similarity)
                     THEN similarity ELSE best_similarity
         IN  IF ScoreEqual(best, Score(1, 1)) THEN best
             ELSE BestFrom(query_lower, text_lower, i + 1, best)

(* the text truncated to the length of the query: the first window only *)
levenshtein_similarity_Truncated(query, text) ==
    LET query_lower == str_lower(query)
        text_lower == str_lower(text)
        max_len == Max2(Len(query_lower), Len(text_lower))
    IN  IF Len(query_lower) >= Len(text_lower)
        THEN [raised |-> FALSE,
              score |-> IF max_len = 0 THEN Score(1, 1)
                        ELSE Score(max_len - levenshtein_distance(query_lower, text_lower),
                                   max_len)]
        ELSE IF Len(query_lower) = 0
        THEN [raised |-> TRUE, score |-> Score(0, 1)]
        ELSE [raised |-> FALSE,
              score |-> Score(Len(query_lower)
                                - levenshtein_distance(query_lower,
                                      Slice(text_lower, 0, Len(query_lower))),
                              Len(query_lower))]

(* The result, and whether the call raised: with an empty query and a      *)
(* text that is not empty, distance / query_len divides by zero            *)
levenshtein_similarity(query, text) ==
    LET query_lower == str_lower(query)
        text_lower == str_lower(text)
        max_len == Max2(Len(query_lower), Len(text_lower))
    IN  IF Len(query_lower) >= Len(text_lower)
        THEN [raised |-> FALSE,
              score |-> IF max_len = 0 THEN Score(1, 1)
                        ELSE Score(max_len - levenshtein_distance(query_lower, text_lower),
                                   max_len)]
        ELSE IF Len(query_lower) = 0
        THEN [raised |-> TRUE, score |-> Score(0, 1)]
        ELSE [raised |-> FALSE,
              score |-> BestFrom(query_lower, text_lower, 0, Score(0, 1))]

(* similarity > threshold: a candidate at the threshold is dropped *)
ScoreAtLeast_Strict(x, y) == x.num * y.den > y.num * x.den

(* similarity >= threshold *)
ScoreAtLeast(x, y) == x.num * y.den >= y.num * x.den

(* "for text, item in items": the (item, similarity) pairs appended for    *)
(* the items from position i on; raised when a call of                     *)
(* levenshtein_similarity raises                                           *)
RECURSIVE Matching(_, _, _, _)
Matching(query, items, threshold, i) ==
    IF i > Len(items) THEN [raised |-> FALSE, results |-> <<>>]
    ELSE LET r == levenshtein_similarity(query, items[i].text)
             rest == Matching(query, items, threshold, i + 1)
         IN  IF r.raised \/ rest.raised THEN [raised |-> TRUE, results |-> <<>>]
             ELSE IF ScoreAtLeast(r.score, threshold)
             THEN [raised |-> FALSE,
                   results |-> <<[item |-> items[i].item, score |-> r.score]>>
                                   \o rest.results]
             ELSE rest

(* entry e put into the sorted list after the entries whose score is not   *)
(* smaller, and before any entry of a greater score                        *)
InsertedAnywhere(sorted, e) ==
    LET k == CHOOSE k \in 0..Len(sorted) :
                 /\ \A j \in 1..k : ~ScoreGreater(e.score, sorted[j].score)
                 /\ k < Len(sorted) => ScoreGreater(e.score, sorted[k + 1].score)
    IN  SubSeq(sorted, 1, k) \o <<e>> \o SubSeq(sorted, k + 1, Len(sorted))

(* an unstable sort: an entry goes before the entries of the same score *)
RECURSIVE SortByScore_TiesReversed(_)
SortByScore_TiesReversed(results) ==
    IF results = <<>> THEN <<>>
    ELSE LET sorted == SortByScore_TiesReversed(SubSeq(results, 1, Len(results) - 1))
             e == results[Len(results)]
             k == CHOOSE k \in 0..Len(sorted) :
                      /\ \A j \in 1..k : ScoreGreater(sorted[j].score, e.score)
                      /\ k < Len(sorted) => ~ScoreGreater(sorted[k + 1].score, e.score)
         IN  SubSeq(sorted, 1, k) \o <<e>> \o SubSeq(sorted, k + 1, Len(sorted))

(* results.sort(key=lambda x: x[1], reverse=True): list.sort is stable, and *)
(* with reverse=True entries of equal key keep their order                  *)
RECURSIVE SortByScore(_)
SortByScore(results) ==
    IF results = <<>> THEN <<>>
    ELSE InsertedAnywhere(SortByScore(SubSeq(results, 1, Len(results) - 1)),
                          results[Len(results)])

search_by_similarity(query, items, threshold) ==
    LET m == Matching(query, items, threshold, 1) IN
    [raised |-> m.raised, results |-> SortByScore(m.results)]

(* str.strip() for texts whose only white space is " " *)
RECURSIVE LStrip(_)
LStrip(s) == IF s # <<>> /\ Head(s) = " " THEN LStrip(Tail(s)) ELSE s

RECURSIVE RStrip(_)
RStrip(s) ==
    IF s # <<>> /\ s[Len(s)] = " " THEN RStrip(SubSeq(s, 1, Len(s) - 1)) ELSE s

Strip(s) == LStrip(RStrip(s))

(* An Optional[str] field of a URL: the text, or None *)
Text(t) == [present |-> TRUE, text |-> t]
Absent == [present |-> FALSE, text |-> <<>>]

(* str(None), as an f-string formats an absent title *)
NoneText == <<"N", "o", "n", "e">>

(* f"{url.title} {url.description or ''} {url.url}".strip() *)
full_text(url) ==
    Strip((IF url.title.present THEN url.title.text ELSE NoneText) \o <<" ">>
          \o (IF url.description.present THEN url.description.text ELSE <<>>) \o <<" ">>
          \o url.url)

(* title_similarity * 0.7 + full_similarity * 0.3 if title_similarity > 0.5 *)
(* else title_similarity * 0.4 + full_similarity * 0.6                     *)
weighted_similarity(title_similarity, full_similarity) ==
    IF ScoreGreater(title_similarity, Score(1, 2))
    THEN Score(7 * title_similarity.num * full_similarity.den
                 + 3 * full_similarity.num * title_similarity.den,
               10 * title_similarity.den * full_similarity.den)
    ELSE Score(4 * title_similarity.num * full_similarity.den
                 + 6 * full_similarity.num * title_similarity.den,
               10 * title_similarity.den * full_similarity.den)

(* "for url in all_urls" from position i on.  levenshtein_similarity(q,     *)
(* url.title) calls text.lower() on the title: with a title that is None  *)
(* it raises AttributeError                                                *)
RECURSIVE ScoredUrls(_, _, _, _)
ScoredUrls(q, all_urls, threshold, i) ==
    IF i > Len(all_urls) THEN [raised |-> FALSE, results |-> <<>>]
    ELSE IF ~all_urls[i].title.present THEN [raised |-> TRUE, results |-> <<>>]
    ELSE LET title_similarity == levenshtein_similarity(q, all_urls[i].title.text)
             full_similarity == levenshtein_similarity(q, full_text(all_urls[i]))
             rest == ScoredUrls(q, all_urls, threshold, i + 1)
         IN  IF title_similarity.raised \/ full_similarity.raised \/ rest.raised
             THEN [raised |-> TRUE, results |-> <<>>]
             ELSE LET weighted == weighted_similarity(title_similarity.score,
                                                      full_similarity.score)
                  IN  IF ScoreAtLeast(weighted, threshold)
                      THEN [raised |-> FALSE,
                            results |-> <<[item |-> all_urls[i].item, score |-> weighted]>>
                                            \o rest.results]
                      ELSE rest

(* GET /urls/search/: the URLs of results[:limit] after the sort *)
search_urls(q, all_urls, threshold, limit) ==
    LET scored == ScoredUrls(q, all_urls, threshold, 1)
        results == SortByScore(scored.results)
    IN  [raised |-> scored.raised,
         results |-> [k \in 1..Min({limit, Len(results)}) |-> results[k].item]]

----------------------------------------------------------------------------
(* Requests *)

Req(op, user, id, to, kind, ids, name, color, is_system) ==
    [op |-> op, user |-> user, id |-> id, to |-> to, kind |-> kind,
     ids |-> ids, name |-> name, color |-> color, is_system |-> is_system]

(* POST /tags/ with body {name, color, is_system}, sent by user *)
CreateTagRequests(callers, names, flags) ==
    {Req("create_tag", u, 0, 0, None, <<>>, n, "#111", s) :
        u \in callers, n \in names, s \in flags}

(* PUT /tags/{id} with body {name, color}; None leaves the field out *)
UpdateTagRequests(names, colors) ==
    {Req("update_tag", None, t, 0, None, <<>>, n, c, FALSE) :
        t \in TagIds, n \in names, c \in colors}

(* DELETE /tags/{id} *)
DeleteTagRequests ==
    {Req("delete_tag", None, t, 0, None, <<>>, None, None, FALSE) : t \in TagIds}

(* POST /tags/merge with body {source_tag_ids, target_tag_id: {name, color}} *)
MergeRequests(callers, names) ==
    {Req("merge_tags", u, 0, 0, None, ids, n, "#222", FALSE) :
        u \in callers, ids \in SeqsUpTo(TagIds, MaxSrc), n \in names}

(* POST /urls/{to}/tags/{id} *)
AddTagRequests(urls) ==
    {Req("add_tag_to_url", None, t, u, None, <<>>, None, None, FALSE) :
        t \in TagIds, u \in urls}

(* POST /urls/{to}/tags/{id} with the given tag ids *)
AddTagRequestsOf(tag_ids, urls) ==
    {Req("add_tag_to_url", None, t, u, None, <<>>, None, None, FALSE) :
        t \in tag_ids, u \in urls}

(* POST /tags/{id}/parent-of/{to}, /composed-of/, /related-to/ *)
RelationRequests(op, froms, tos) ==
    {Req(op, None, f, t, None, <<>>, None, None, FALSE) : f \in froms, t \in tos}

(* DELETE /tags/{from_id}/{relation_type}/{to_id} *)
DeleteRelationRequests(kinds, froms, tos) ==
    {Req("delete_relation", None, f, t, k, <<>>, None, None, FALSE) :
        k \in kinds, f \in froms, t \in tos}

(* GET /tags/{tag_id}/relations *)
GetTagWithRelationsRequests ==
    {Req("get_tag_with_relations", None, t, 0, None, <<>>, None, None, FALSE) :
        t \in TagIds}

(* POST /files/{to}/tags/{id} *)
AddTagToFileRequests(files) ==
    {Req("add_tag_to_file", None, t, f, None, <<>>, None, None, FALSE) :
        t \in TagIds, f \in files}

(* DELETE /urls/{url_id}/tags/{tag_id} *)
RemoveTagRequests(urls) ==
    {Req("remove_tag_from_url", None, t, u, None, <<>>, None, None, FALSE) :
        t \in TagIds, u \in urls}

(* PUT /urls/{url_id} with the list tag_ids *)
UpdateUrlRequests(urls, lists) ==
    {Req("update_url", None, 0, u, None, ids, None, None, FALSE) :
        u \in urls, ids \in lists}

(* PUT /urls/{url_id} with a document type, or with none *)
SetDocumentTypeRequests(callers, urls, types) ==
    {Req("set_document_type", c, 0, u, None, <<>>, n, None, FALSE) :
        c \in callers, u \in urls, n \in types}

(* POST /tags/merge with the given lists of source_tag_ids *)
MergeRequestsOf(callers, lists, names) ==
    {Req("merge_tags", u, 0, 0, None, ids, n, "#222", FALSE) :
        u \in callers, ids \in lists, n \in names}

(* The requests as sent by the users in callers.  update_tag, delete_tag,  *)
(* the create_*_relation handlers and delete_relation take no current_user *)
(* parameter: the user is who sends the request, and the handler never     *)
(* reads it.                                                               *)
SentBy(callers, requests) ==
    {[r EXCEPT !.user = c] : c \in callers, r \in requests}

(* the authenticated caller of a handler that takes no other parameter *)
CallerRequests(op, callers) ==
    {Req(op, u, 0, 0, None, <<>>, None, None, FALSE) : u \in callers}

(* POST /urls/bulk-import: one link of URL url carrying one tag name *)
BulkImportRequests(callers, urls, names, colors) ==
    {Req("bulk_import_urls", u, 0, url, None, <<>>, n, c, FALSE) :
        u \in callers, url \in urls, n \in names, c \in colors}

----------------------------------------------------------------------------
(* Steps *)

(* No two merges are being served *)
NoMerging ==
    [start |-> EmptyGraph, reqs |-> <<NoRequest, NoRequest>>,
     pc |-> <<"none", "none">>, resp |-> <<NoResponse, NoResponse>>]

(* No call of the Levenshtein service *)
NoCall ==
    [fn |-> "none", s1 |-> <<>>, s2 |-> <<>>, s3 |-> <<>>, distance |-> 0,
     raised |-> FALSE, score |-> Score(0, 1),
     items |-> <<>>, threshold |-> Score(0, 1), limit |-> 0, results |-> <<>>]

Idle == request = NoRequest /\ merging = NoMerging

(* A handler answers req with outcome out *)
HandleGraph(req, out) ==
    /\ Idle
    /\ request' = req
    /\ response' = out.response
    /\ before' = DB
    /\ tags' = out.db.tags
    /\ has_tag' = out.db.has_tag
    /\ relations' = out.db.relations
    /\ UNCHANGED <<tag_user_name_unique, merging, call>>

Handle(req, out) == HandleGraph(req, out) /\ UNCHANGED users

(* The response is handed back; the next request can be served *)
Respond ==
    /\ request # NoRequest
    /\ request' = NoRequest
    /\ response' = NoResponse
    /\ before' = EmptyGraph
    /\ UNCHANGED <<users, tags, has_tag, relations, tag_user_name_unique, merging, call>>

CreateTag(requests) ==
    \E req \in requests :
        /\ req.user \in users
        /\ TagIds \ DOMAIN tags # {}
        /\ \E out \in create_tag(DB, req) : Handle(req, out)

UpdateTag(requests) ==
    \E req \in requests : Handle(req, update_tag(DB, tag_user_name_unique, req))

DeleteTag(requests) ==
    \E req \in requests : Handle(req, delete_tag(DB, req))

MergeTags(requests) ==
    \E req \in requests :
        /\ req.user \in users
        /\ Handle(req, merge_tags(DB, tag_user_name_unique, req))

AddTagToUrl(requests) ==
    \E req \in requests : Handle(req, add_tag_to_url(DB, req))

CreateParentOfRelation(requests) ==
    \E req \in requests :
        Handle(req, create_parent_of_relation(DB, req))

CreateComposedOfRelation(requests) ==
    \E req \in requests :
        Handle(req, create_composed_of_relation(DB, req))

CreateRelatedToRelation(requests) ==
    \E req \in requests :
        Handle(req, create_related_to_relation(DB, req))

DeleteRelation(requests) ==
    \E req \in requests :
        Handle(req, delete_relation(DB, req))

GetTagWithRelations(requests) ==
    \E req \in requests :
        Handle(req, get_tag_with_relations(DB, req))

AddTagToFile(requests) ==
    \E req \in requests : Handle(req, add_tag_to_file(DB, req))

RemoveTagFromUrl(requests) ==
    \E req \in requests :
        Handle(req, remove_tag_from_url(DB, req))

UpdateUrl(requests) ==
    \E req \in requests :
        Handle(req, update_url(DB, req))

(* Two POST /tags/merge requests arrive while no other request is served *)
BeginMerges(requests) ==
    \E r1, r2 \in requests :
        /\ Idle
        /\ r1.user \in users /\ r2.user \in users
        /\ merging' = [start |-> DB, reqs |-> <<r1, r2>>,
                       pc |-> <<"validate", "validate">>,
                       resp |-> <<NoResponse, NoResponse>>]
        /\ UNCHANGED <<users, tags, has_tag, relations, tag_user_name_unique,
                       request, response, before, call>>

(* Request p runs its validation reads; it answers at once when they reject *)
MergeValidateStep(p) ==
    /\ merging.pc[p] = "validate"
    /\ LET invalid == merge_tags_validate(DB, merging.reqs[p]) IN
       merging' = IF invalid # 0
                  THEN [merging EXCEPT !.pc[p] = "done", !.resp[p] = Reply(invalid)]
                  ELSE [merging EXCEPT !.pc[p] = "merge"]
    /\ UNCHANGED <<users, tags, has_tag, relations, tag_user_name_unique,
                   request, response, before, call>>

(* Request p runs its merge statement, one transaction, and answers *)
MergePerformStep(p) ==
    /\ merging.pc[p] = "merge"
    /\ LET out == merge_tags_perform(DB, tag_user_name_unique, merging.reqs[p]) IN
        /\ tags' = out.db.tags
        /\ has_tag' = out.db.has_tag
        /\ relations' = out.db.relations
        /\ merging' = [merging EXCEPT !.pc[p] = "done", !.resp[p] = out.response]
    /\ UNCHANGED <<users, tag_user_name_unique, request, response, before, call>>

(* Both responses are handed back *)
EndMerges ==
    /\ merging.pc = <<"done", "done">>
    /\ merging' = NoMerging
    /\ UNCHANGED <<users, tags, has_tag, relations, tag_user_name_unique,
                   request, response, before, call>>

(* levenshtein_distance is called with the two strings of call *)
LevenshteinDistance ==
    /\ call.fn = "arguments"
    /\ call' = [call EXCEPT !.fn = "levenshtein_distance",
                            !.distance = levenshtein_distance(call.s1, call.s2)]
    /\ UNCHANGED <<users, tags, has_tag, relations, tag_user_name_unique,
                   request, response, before, merging>>

(* levenshtein_similarity is called with s1 as the query and s2 as the text *)
LevenshteinSimilarity ==
    /\ call.fn = "arguments"
    /\ LET r == levenshtein_similarity(call.s1, call.s2) IN
       call' = [call EXCEPT !.fn = "levenshtein_similarity",
                            !.raised = r.raised, !.score = r.score]
    /\ UNCHANGED <<users, tags, has_tag, relations, tag_user_name_unique,
                   request, response, before, merging>>

(* search_by_similarity is called with s1 as the query *)
SearchBySimilarity ==
    /\ call.fn = "search"
    /\ LET r == search_by_similarity(call.s1, call.items, call.threshold) IN
       call' = [call EXCEPT !.fn = "search_by_similarity",
                            !.raised = r.raised, !.results = r.results]
    /\ UNCHANGED <<users, tags, has_tag, relations, tag_user_name_unique,
                   request, response, before, merging>>

(* GET /urls/search/ with q = s1, for a user whose URLs are items *)
SearchUrls ==
    /\ call.fn = "search"
    /\ LET r == search_urls(call.s1, call.items, call.threshold, call.limit) IN
       call' = [call EXCEPT !.fn = "search_urls",
                            !.raised = r.raised, !.results = r.results]
    /\ UNCHANGED <<users, tags, has_tag, relations, tag_user_name_unique,
                   request, response, before, merging>>

FreeTagIds == Cardinality(TagIds \ DOMAIN tags)

Register(requests) ==
    \E req \in requests :
        /\ req.user \in users \/ FreeTagIds >= Len(DOCUMENT_TYPES)
        /\ HandleGraph(req, register(DB, users, req))
        /\ users' = users \cup {req.user}

SetDocumentType(requests) ==
    \E req \in requests :
        /\ req.user \in users
        /\ \/ req.name = None
           \/ get_by_name_and_user(DB, req.name, req.user) # {}
           \/ FreeTagIds >= 1
        /\ \E out \in set_document_type(DB, req) : Handle(req, out)

InitializeDocumentTypeTags(requests) ==
    \E req \in requests :
        /\ req.user \in users
        /\ FreeTagIds >= MissingCount(DB, req.user, DocumentTypeTags)
        /\ Handle(req, initialize_document_type_tags(DB, req))

InitializeSystemTags(requests) ==
    \E req \in requests :
        /\ req.user \in users
        /\ FreeTagIds >= MissingCount(DB, req.user, SYSTEM_TAGS)
        /\ Handle(req, initialize_system_tags(DB, req))

MigrateSystemTags(requests) ==
    \E req \in requests :
        /\ req.user \in users
        /\ Handle(req, migrate_system_tags(DB, req))

BulkImportUrls(requests) ==
    \E req \in requests :
        /\ req.user \in users
        /\ tag_map(DB, req.user, lower(req.name)) # {} \/ FreeTagIds >= 1
        /\ \E out \in bulk_import_urls(DB, req) : Handle(req, out)

InitWith(registered, unique) ==
    /\ users = registered
    /\ tags = EmptyGraph.tags
    /\ has_tag = EmptyGraph.has_tag
    /\ relations = EmptyGraph.relations
    /\ tag_user_name_unique \in unique
    /\ request = NoRequest
    /\ response = NoResponse
    /\ before = EmptyGraph
    /\ merging = NoMerging
    /\ call = NoCall

----------------------------------------------------------------------------
(* Spec: one user tags URLs with plain tags and merges them *)

Init == InitWith(Users, BOOLEAN)

Next ==
    \/ CreateTag(CreateTagRequests({"u1"}, PlainNames, {FALSE}))
    \/ AddTagToUrl(AddTagRequests(UrlIds))
    \/ MergeTags(MergeRequests({"u1"}, {"a", "m"}))
    \/ Respond

Spec == Init /\ [][Next]_vars


----------------------------------------------------------------------------
(* What the last request was, read off request, response and before *)

MergeAnswered == request.op = "merge_tags"
MergeSucceeded == MergeAnswered /\ response.status = HTTP_200_OK
SourceIds == Range(request.ids)
TargetId == request.ids[1]
OtherSourceIds == SourceIds \ {TargetId}

(* the URLs that had a HAS_TAG edge to one of the tags S when the request arrived *)
UrlsTaggedBefore(S) == {u \in UrlIds : \E t \in S : before.has_tag[<<u, t>>] > 0}

GraphUnchanged == DB = before

(* C1: after a successful merge every URL that had a HAS_TAG edge to a     *)
(* source tag has a HAS_TAG edge to the target tag and none to any other   *)
(* source tag.                                                             *)
C1_MergeRepointsUrls ==
    MergeSucceeded =>
        \A u \in UrlsTaggedBefore(SourceIds) :
            /\ has_tag[<<u, TargetId>>] > 0
            /\ \A t \in OtherSourceIds : has_tag[<<u, t>>] = 0

(* a URL tagged with a non-target source tag only was moved to the target *)
C1_Witness ==
    /\ MergeSucceeded
    /\ \E u \in UrlIds, t \in OtherSourceIds :
        /\ before.has_tag[<<u, t>>] > 0
        /\ before.has_tag[<<u, TargetId>>] = 0
        /\ has_tag[<<u, TargetId>>] = 1
        /\ has_tag[<<u, t>>] = 0

(* C2: after a successful merge over n distinct source tags no non-target  *)
(* source tag exists any more (also one no URL was tagged with), the       *)
(* target exists with the new name and color, and tags_merged = n - 1.     *)
C2_MergeDeletesSources ==
    MergeSucceeded =>
        /\ \A t \in OtherSourceIds : t \notin DOMAIN tags
        /\ TargetId \in DOMAIN tags
        /\ tags[TargetId].name = request.name
        /\ tags[TargetId].color = request.color
        /\ response.tags_merged = Cardinality(SourceIds) - 1

C5_FewerThanTwoDistinctFails ==
    (MergeAnswered /\ Cardinality(SourceIds) < 2) =>
        /\ response.status >= HTTP_400_BAD_REQUEST
        /\ GraphUnchanged


----------------------------------------------------------------------------
(* SpecSystem: two users, plain and system tags, tagged URLs and          *)
(* relationships; tags are updated, deleted and merged                     *)

NextSystem ==
    \/ CreateTag(CreateTagRequests(Users, {"a"}, BOOLEAN))
    \/ AddTagToUrl(AddTagRequests({1}))
    \/ CreateParentOfRelation(
           RelationRequests("create_parent_of_relation", {1}, TagIds))
    \/ UpdateTag(UpdateTagRequests({"b"}, {"#222"}))
    \/ DeleteTag(DeleteTagRequests)
    \/ MergeTags(MergeRequests({"u1"}, {"m"}))
    \/ Respond

SpecSystem == InitWith(Users, BOOLEAN) /\ [][NextSystem]_vars

----------------------------------------------------------------------------
(* System tags *)

SystemBefore(t) == t \in DOMAIN before.tags /\ before.tags[t].is_system

MergeNamesSystemTag == MergeAnswered /\ \E t \in SourceIds : SystemBefore(t)

(* the ids of the request that the validation loop rejects: absent, owned *)
(* by somebody else, or system                                             *)
RejectedAt(i) ==
    \/ request.ids[i] \notin DOMAIN before.tags
    \/ before.tags[request.ids[i]].user_id # request.user
    \/ before.tags[request.ids[i]].is_system

FirstRejected == Min({i \in DOMAIN request.ids : RejectedAt(i)})

(* C4, as claimed: a merge request whose source_tag_ids contains a system *)
(* tag, in whichever position, is answered 403 Forbidden and the graph is *)
(* left as it was.                                                         *)
C4_SystemTagMergeForbidden ==
    MergeNamesSystemTag =>
        /\ response.status = HTTP_403_FORBIDDEN
        /\ GraphUnchanged

(* C4, as amended: a merge request whose source_tag_ids contains a system *)
(* tag, in whichever position, fails and the graph is left as it was; the *)
(* status is 400 when the list has fewer than two ids, otherwise 404 when *)
(* the first id the validation rejects does not exist, otherwise 403.     *)
C4_SystemTagMergeRejected ==
    MergeNamesSystemTag =>
        /\ GraphUnchanged
        /\ response.status =
              IF Len(request.ids) < 2 THEN HTTP_400_BAD_REQUEST
              ELSE IF request.ids[FirstRejected] \notin DOMAIN before.tags
                   THEN HTTP_404_NOT_FOUND
                   ELSE HTTP_403_FORBIDDEN

(* a merge of the caller's own plain tag with the caller's own system tag *)
(* in second position, the plain one carrying a URL, was rejected 403     *)
C4_Witness ==
    /\ MergeAnswered
    /\ Len(request.ids) = 2
    /\ request.ids[1] \in DOMAIN before.tags
    /\ before.tags[request.ids[1]].user_id = request.user
    /\ ~before.tags[request.ids[1]].is_system
    /\ SystemBefore(request.ids[2])
    /\ before.tags[request.ids[2]].user_id = request.user
    /\ \E u \in UrlIds : before.has_tag[<<u, request.ids[2]>>] > 0
    /\ response.status = HTTP_403_FORBIDDEN
    /\ GraphUnchanged

(* C6: in every reachable state no two tags of the same owner have the    *)
(* same name, whatever creations, renames and merges came before.          *)
C6_NoTwoTagsShareOwnerAndName ==
    \A x, y \in DOMAIN tags :
        (tags[x].user_id = tags[y].user_id /\ tags[x].name = tags[y].name)
            => x = y

NamesSystemTag ==
    \/ request.op \in {"update_tag", "delete_tag"} /\ SystemBefore(request.id)
    \/ MergeNamesSystemTag

(* every tag that was a system tag when the request arrived is still there *)
(* with the same name, color, owner and flag                               *)
SystemTagsKept ==
    \A t \in DOMAIN before.tags :
        before.tags[t].is_system => (t \in DOMAIN tags /\ tags[t] = before.tags[t])

(* C7, as claimed: no update_tag, delete_tag or merge request changes the *)
(* name or color of a system tag or deletes it, and each such request     *)
(* naming a system tag is answered 403 Forbidden and leaves the graph as  *)
(* it was.                                                                 *)
C7_SystemTagForbidden ==
    /\ request.op \in {"update_tag", "delete_tag", "merge_tags"} => SystemTagsKept
    /\ NamesSystemTag =>
          (response.status = HTTP_403_FORBIDDEN /\ GraphUnchanged)

(* C7, as amended: no update_tag, delete_tag or merge request changes the *)
(* name or color of a system tag or deletes it; an update_tag or          *)
(* delete_tag request naming a system tag is answered 403 Forbidden, a     *)
(* merge request naming one is answered 403, or 400 when its list has     *)
(* fewer than two ids, or 404 when an id of the list does not exist; each *)
(* of them leaves the graph as it was.                                     *)
C7_SystemTagImmutable ==
    /\ request.op \in {"update_tag", "delete_tag", "merge_tags"} => SystemTagsKept
    /\ NamesSystemTag =>
          /\ GraphUnchanged
          /\ request.op \in {"update_tag", "delete_tag"} =>
                response.status = HTTP_403_FORBIDDEN
          /\ request.op = "merge_tags" =>
                \/ response.status = HTTP_403_FORBIDDEN
                \/ response.status = HTTP_400_BAD_REQUEST /\ Len(request.ids) < 2
                \/ /\ response.status = HTTP_404_NOT_FOUND
                   /\ \E i \in DOMAIN request.ids :
                         request.ids[i] \notin DOMAIN before.tags

(* an update of the name and color of a system tag that a URL carries and *)
(* that has a relationship was answered 403                                *)
C7_Witness ==
    /\ request.op = "update_tag"
    /\ SystemBefore(request.id)
    /\ request.name # None
    /\ request.color # None
    /\ \E u \in UrlIds : has_tag[<<u, request.id>>] > 0
    /\ \E k \in valid_types, t \in TagIds :
          relations[<<k, request.id, t>>] + relations[<<k, t, request.id>>] > 0
    /\ response.status = HTTP_403_FORBIDDEN
    /\ tags[request.id] = before.tags[request.id]

----------------------------------------------------------------------------
(* SpecTags: users register and create tags by every creation path *)

NextTags ==
    \/ Register(CallerRequests("register", Users))
    \/ CreateTag(CreateTagRequests(Users, {"Favoris", "a"}, BOOLEAN))
    \/ InitializeDocumentTypeTags(CallerRequests("initialize_document_type_tags", {"u1"}))
    \/ InitializeSystemTags(CallerRequests("initialize_system_tags", {"u1"}))
    \/ MigrateSystemTags(CallerRequests("migrate_system_tags", {"u1"}))
    \/ BulkImportUrls(BulkImportRequests({"u1"}, {1}, {"Favoris", "favoris", "Invoice"}, {"#111"}))
    \/ DeleteTag(DeleteTagRequests)
    \/ Respond

SpecTags == InitWith({}, {FALSE}) /\ [][NextTags]_vars

CreatedTags == DOMAIN tags \ DOMAIN before.tags

(* C8: every tag created with a reserved name (Favoris, Partage, a         *)
(* document type) has is_system = true, whichever handler created it and  *)
(* whatever is_system the request carried.                                 *)
C8_ReservedNamesAreSystem ==
    \A t \in CreatedTags :
        tags[t].name \in SYSTEM_TAG_NAMES => tags[t].is_system

----------------------------------------------------------------------------
(* SpecRel: tags are created and deleted, relationships of the three kinds *)
(* are created, also from a tag to itself and between tags that do not     *)
(* exist, and deleted                                                      *)

NextRel ==
    \/ CreateTag(CreateTagRequests({"u1"}, PlainNames, {FALSE}))
    \/ CreateParentOfRelation(
           RelationRequests("create_parent_of_relation", TagIds, TagIds))
    \/ CreateComposedOfRelation(
           RelationRequests("create_composed_of_relation", {1}, {1, 2}))
    \/ CreateRelatedToRelation(
           RelationRequests("create_related_to_relation", {1, 2}, {1, 2}))
    \/ DeleteRelation(
           DeleteRelationRequests(valid_types \cup InjectedTypes, {1, 2}, {1, 2}))
    \/ DeleteTag(DeleteTagRequests)
    \/ GetTagWithRelations(GetTagWithRelationsRequests)
    \/ Respond

SpecRel == InitWith(Users, {FALSE}) /\ [][NextRel]_vars

CreateRelationOps ==
    {"create_parent_of_relation", "create_composed_of_relation",
     "create_related_to_relation"}

KindOf(op) ==
    CASE op = "create_parent_of_relation" -> PARENT_OF
      [] op = "create_composed_of_relation" -> COMPOSED_OF
      [] op = "create_related_to_relation" -> RELATED_TO

CreateRelationAnswered == request.op \in CreateRelationOps

RequestedEdge == <<KindOf(request.op), request.id, request.to>>

(* C9: a request to relate a tag to itself is answered 400 and creates no  *)
(* edge, whether or not the tag exists, and no reachable state holds a     *)
(* relationship from a tag to itself.                                      *)
C9_NoSelfRelation ==
    /\ (CreateRelationAnswered /\ request.id = request.to) =>
          (response.status = HTTP_400_BAD_REQUEST /\ GraphUnchanged)
    /\ \A k \in valid_types, t \in TagIds : relations[<<k, t, t>>] = 0

(* a tag that exists and has a relationship was asked to relate to itself *)
C9_Witness ==
    /\ CreateRelationAnswered
    /\ request.id = request.to
    /\ request.id \in DOMAIN tags
    /\ \E k \in valid_types, t \in TagIds : relations[<<k, request.id, t>>] > 0
    /\ response.status = HTTP_400_BAD_REQUEST

(* the list of get_with_relations that shows tag o from tag t for a kind *)
ListedOnce(pattern, t, o) ==
    \A answer \in get_with_relations(DB, t) : answer[pattern][o] = 1

(* C10: every create_relation(kind, A, B) on two existing tags succeeds,   *)
(* the first call and every repetition; afterwards there is exactly one    *)
(* edge of that kind from A to B, a repetition leaves the graph as it was, *)
(* and get_with_relations lists the other tag exactly once in the list of  *)
(* that kind, on both sides.                                               *)
C10_CreateRelationIdempotent ==
    (/\ CreateRelationAnswered
     /\ request.id # request.to
     /\ request.id \in DOMAIN before.tags
     /\ request.to \in DOMAIN before.tags) =>
        /\ response.status = HTTP_201_CREATED
        /\ relations[RequestedEdge] = 1
        /\ before.relations[RequestedEdge] > 0 => GraphUnchanged
        /\ get_with_relations(DB, request.id) # {}
        /\ CASE request.op = "create_parent_of_relation" ->
                  /\ ListedOnce("children", request.id, request.to)
                  /\ ListedOnce("parents", request.to, request.id)
             [] request.op = "create_composed_of_relation" ->
                  /\ ListedOnce("composed_of", request.id, request.to)
                  /\ ListedOnce("part_of", request.to, request.id)
             [] request.op = "create_related_to_relation" ->
                  /\ ListedOnce("related_to", request.id, request.to)
                  /\ ListedOnce("related_to", request.to, request.id)

(* a relationship that was there already was created again, from a tag     *)
(* that has relationships of other kinds too                               *)
C10_Witness ==
    /\ CreateRelationAnswered
    /\ before.relations[RequestedEdge] = 1
    /\ response.status = HTTP_201_CREATED
    /\ relations[RequestedEdge] = 1
    /\ \E k \in valid_types \ {KindOf(request.op)} :
          relations[<<k, request.id, request.to>>] = 1

DeleteRelationAnswered == request.op = "delete_relation"

(* C11: delete_relation with a relation type that is not exactly PARENT_OF, *)
(* COMPOSED_OF or RELATED_TO is answered 400 and the graph is as it was:    *)
(* the type is refused before it is put into the statement.                 *)
C11_InvalidKindRejected ==
    (DeleteRelationAnswered /\ request.kind \notin valid_types) =>
        (response.status = HTTP_400_BAD_REQUEST /\ GraphUnchanged)

(* a type that, put into the statement, would match an edge that exists    *)
(* was refused                                                             *)
C11_Witness ==
    /\ DeleteRelationAnswered
    /\ request.kind = "PARENT_OF|COMPOSED_OF"
    /\ relations[<<PARENT_OF, request.id, request.to>>] = 1
    /\ response.status = HTTP_400_BAD_REQUEST

DeletedEdge == <<request.kind, request.id, request.to>>

(* C12: delete_relation with a valid type removes the edge of that type    *)
(* from 'from' to 'to' when there is one and answers 204, leaving every    *)
(* other edge (other types between the pair, the reverse direction, other  *)
(* pairs) and every tag as they were; when there is none it answers 404    *)
(* and the graph is as it was.                                             *)
C12_DeleteRelationFrame ==
    (DeleteRelationAnswered /\ request.kind \in valid_types) =>
        IF before.relations[DeletedEdge] > 0
        THEN /\ response.status = HTTP_204_NO_CONTENT
             /\ relations = [before.relations EXCEPT ![DeletedEdge] = 0]
             /\ tags = before.tags
             /\ has_tag = before.has_tag
        ELSE /\ response.status = HTTP_404_NOT_FOUND
             /\ GraphUnchanged

(* an edge was deleted between two tags that also had the reverse edge and *)
(* an edge of another type, which are still there                          *)
C12_Witness ==
    /\ DeleteRelationAnswered
    /\ request.kind = PARENT_OF
    /\ response.status = HTTP_204_NO_CONTENT
    /\ before.relations[DeletedEdge] = 1
    /\ relations[DeletedEdge] = 0
    /\ relations[<<PARENT_OF, request.to, request.id>>] = 1
    /\ relations[<<RELATED_TO, request.id, request.to>>] = 1

Once(condition) == IF condition THEN 1 ELSE 0

(* the answer to the request lists tag o in the list of that name exactly  *)
(* once when the condition holds and not at all when it does not           *)
Lists(pattern, o, condition) ==
    \A answer \in get_with_relations(DB, request.id) :
        answer[pattern][o] = Once(condition)

(* C13: in any graph state, get_with_relations(T) for a tag T that exists  *)
(* lists exactly once each tag with a PARENT_OF edge to T (parents), each  *)
(* tag T has a PARENT_OF edge to (children), each tag T has a COMPOSED_OF  *)
(* edge to (composed_of), each tag with a COMPOSED_OF edge to T (part_of)  *)
(* and each tag joined to T by a RELATED_TO edge in either direction       *)
(* (related_to), and nothing else; for a tag that does not exist there is  *)
(* no answer and the handler replies 404.                                  *)
C13_GetWithRelations ==
    request.op = "get_tag_with_relations" =>
        /\ GraphUnchanged
        /\ IF request.id \notin DOMAIN tags
           THEN /\ response.status = HTTP_404_NOT_FOUND
                /\ get_with_relations(DB, request.id) = {}
           ELSE /\ response.status = HTTP_200_OK
                /\ get_with_relations(DB, request.id) # {}
                /\ \A o \in TagIds :
                      /\ Lists("parents", o, relations[<<PARENT_OF, o, request.id>>] > 0)
                      /\ Lists("children", o, relations[<<PARENT_OF, request.id, o>>] > 0)
                      /\ Lists("composed_of", o, relations[<<COMPOSED_OF, request.id, o>>] > 0)
                      /\ Lists("part_of", o, relations[<<COMPOSED_OF, o, request.id>>] > 0)
                      /\ Lists("related_to", o,
                               \/ relations[<<RELATED_TO, request.id, o>>] > 0
                               \/ relations[<<RELATED_TO, o, request.id>>] > 0)

(* the relations of a tag were read that has RELATED_TO edges in both      *)
(* directions with another tag, which is also its parent and its child     *)
C13_Witness ==
    /\ request.op = "get_tag_with_relations"
    /\ response.status = HTTP_200_OK
    /\ \E o \in TagIds :
          /\ relations[<<RELATED_TO, request.id, o>>] = 1
          /\ relations[<<RELATED_TO, o, request.id>>] = 1
          /\ relations[<<PARENT_OF, request.id, o>>] = 1
          /\ relations[<<PARENT_OF, o, request.id>>] = 1

----------------------------------------------------------------------------
(* SpecDoc: a user registers, which creates the document-type tags, and    *)
(* URLs are tagged, untagged, updated, imported and their tags merged      *)

DocumentTypeNames == {DOCUMENT_TYPES[i] : i \in DOMAIN DOCUMENT_TYPES}

NextDoc ==
    \/ Register(CallerRequests("register", {"u1"}))
    \/ AddTagToUrl(AddTagRequests(UrlIds))
    \/ RemoveTagFromUrl(RemoveTagRequests(UrlIds))
    \/ UpdateUrl(UpdateUrlRequests(UrlIds, SeqsUpTo(TagIds, 2)))
    \/ BulkImportUrls(BulkImportRequests({"u1"}, UrlIds, {"Invoice", "Receipt"}, {"#111"}))
    \/ MergeTags(MergeRequests({"u1"}, {"Invoice"}))
    \/ SetDocumentType(SetDocumentTypeRequests({"u1"}, UrlIds, DocumentTypeNames \cup {None}))
    \/ Respond

SpecDoc == InitWith({}, {FALSE}) /\ [][NextDoc]_vars

DocumentTypeTagsOf(u) ==
    {t \in DOMAIN tags : has_tag[<<u, t>>] > 0 /\ tags[t].name \in DocumentTypeNames}

(* C14: in every reachable state each URL has HAS_TAG edges to at most one *)
(* tag whose name is a document-type name.                                 *)
C14_AtMostOneDocumentType ==
    \A u \in UrlIds : Cardinality(DocumentTypeTagsOf(u)) <= 1

----------------------------------------------------------------------------
(* SpecMerging: one user creates tags and tags URLs, then two merge        *)
(* requests are served at the same time, each as its validation reads      *)
(* followed by its merge statement                                         *)

NextMerging ==
    \/ CreateTag(CreateTagRequests({"u1"}, {"a", "b"}, {FALSE}))
    \/ AddTagToUrl(AddTagRequests(UrlIds))
    \/ BeginMerges(MergeRequestsOf({"u1"}, [1..2 -> TagIds], {"m"}))
    \/ \E p \in 1..2 : MergeValidateStep(p)
    \/ \E p \in 1..2 : MergePerformStep(p)
    \/ EndMerges
    \/ Respond

SpecMerging == InitWith(Users, {FALSE}) /\ [][NextMerging]_vars

(* The graph and the two responses when request first is served to its end *)
(* and then request second, from the graph the two requests found          *)
OneAfterTheOther(first, second) ==
    LET o1 == merge_tags(merging.start, tag_user_name_unique, merging.reqs[first])
        o2 == merge_tags(o1.db, tag_user_name_unique, merging.reqs[second])
    IN  [db |-> o2.db,
         resp |-> [p \in 1..2 |-> IF p = first THEN o1.response ELSE o2.response]]

(* C15: when two merge requests served at the same time have both          *)
(* answered, the graph and the two responses are those of serving the two  *)
(* requests one after the other in one of the two orders.                  *)
C15_MergesSerializable ==
    merging.pc = <<"done", "done">> =>
        [db |-> DB, resp |-> merging.resp] \in
            {OneAfterTheOther(1, 2), OneAfterTheOther(2, 1)}

----------------------------------------------------------------------------
(* SpecFiles: one user tags a URL and a File and merges the tags *)

NextFiles ==
    \/ CreateTag(CreateTagRequests({"u1"}, {"a", "b"}, {FALSE}))
    \/ AddTagToUrl(AddTagRequests({1}))
    \/ AddTagToFile(AddTagToFileRequests({MaxUrls + 1}))
    \/ MergeTags(MergeRequests({"u1"}, {"m"}))
    \/ Respond

SpecFiles == InitWith(Users, {FALSE}) /\ [][NextFiles]_vars

(* C16: after a successful merge every resource, URL or File, that had a   *)
(* HAS_TAG edge to a non-target source tag when the request arrived has a  *)
(* HAS_TAG edge to the target tag.                                         *)
C16_MergeRedirectsAllResources ==
    MergeSucceeded =>
        \A r \in ResourceIds :
            (\E t \in OtherSourceIds : before.has_tag[<<r, t>>] > 0)
                => has_tag[<<r, TargetId>>] > 0

----------------------------------------------------------------------------
(* the tags the caller of the request had under the requested name when    *)
(* the request arrived                                                     *)
SameNameBefore == get_by_name_and_user(before, request.name, request.user)

(* C17: create_tag for an owner who already has a tag of exactly that name *)
(* is answered 201 with the id of that tag, creates no tag and leaves the  *)
(* graph, so the existing tag's color and is_system, as it was.            *)
C17_DuplicateCreateReturnsExisting ==
    (request.op = "create_tag" /\ SameNameBefore # {}) =>
        /\ response.status = HTTP_201_CREATED
        /\ response.id \in SameNameBefore
        /\ GraphUnchanged

(* a duplicate create whose is_system differs from the stored tag's *)
C17_Witness ==
    /\ request.op = "create_tag"
    /\ SameNameBefore # {}
    /\ response.id \in SameNameBefore
    /\ tags[response.id].is_system # request.is_system

----------------------------------------------------------------------------
(* SpecOwners: two users create tags and relationships, and each sends     *)
(* requests that name tags of either user                                  *)

NextOwners ==
    \/ CreateTag(CreateTagRequests(Users, {"a"}, {FALSE}))
    \/ AddTagToUrl(AddTagRequests({1}))
    \/ UpdateTag(SentBy(Users, UpdateTagRequests({"b"}, {"#222"})))
    \/ DeleteTag(SentBy(Users, DeleteTagRequests))
    \/ MergeTags(MergeRequestsOf(Users, {<<1, 2>>, <<2, 1>>}, {"m"}))
    \/ CreateParentOfRelation(
           SentBy(Users, RelationRequests("create_parent_of_relation", {1}, {2})))
    \/ DeleteRelation(SentBy(Users, DeleteRelationRequests({PARENT_OF}, {1}, {2})))
    \/ Respond

SpecOwners == InitWith(Users, {FALSE}) /\ [][NextOwners]_vars

(* the tags a mutating request names *)
TagsNamed ==
    CASE request.op \in {"update_tag", "delete_tag"} -> {request.id}
      [] request.op = "merge_tags" -> Range(request.ids)
      [] request.op \in CreateRelationOps \cup {"delete_relation"} ->
             {request.id, request.to}
      [] OTHER -> {}

(* the tags named that belonged to another user when the request arrived *)
ForeignTagsNamed ==
    {t \in TagsNamed \cap DOMAIN before.tags : before.tags[t].user_id # request.user}

(* tag t and every edge on it are as they were when the request arrived *)
TagAndEdgesKept(t) ==
    /\ t \in DOMAIN tags
    /\ tags[t] = before.tags[t]
    /\ \A e \in DOMAIN has_tag : e[2] = t => has_tag[e] = before.has_tag[e]
    /\ \A e \in DOMAIN relations :
           (e[2] = t \/ e[3] = t) => relations[e] = before.relations[e]

(* C18: a mutating request that names a tag owned by another user than its *)
(* sender is answered 403 and leaves that tag and its edges as they were.  *)
C18_CrossOwnerForbidden ==
    \A t \in ForeignTagsNamed :
        /\ response.status = HTTP_403_FORBIDDEN
        /\ TagAndEdgesKept(t)

----------------------------------------------------------------------------
(* SpecLevenshtein: the two functions of the Levenshtein service, called   *)
(* with every pair of strings of at most MaxStr characters                 *)

InitLevenshtein ==
    /\ users = {}
    /\ tags = EmptyGraph.tags
    /\ has_tag = EmptyGraph.has_tag
    /\ relations = EmptyGraph.relations
    /\ tag_user_name_unique = FALSE
    /\ request = NoRequest
    /\ response = NoResponse
    /\ before = EmptyGraph
    /\ merging = NoMerging
    /\ \E a, b \in Strings : call = [NoCall EXCEPT !.fn = "arguments", !.s1 = a, !.s2 = b]

NextLevenshtein ==
    \/ LevenshteinDistance
    \/ LevenshteinSimilarity

SpecLevenshtein == InitLevenshtein /\ [][NextLevenshtein]_vars

(* The strings one insertion, deletion or substitution of a character of   *)
(* the lower-case alphabet away from s, of at most MaxStr + 1 characters   *)
LowerChars == {char_lower(c) : c \in Chars}

Inserted(s) ==
    {[k \in 1..(Len(s) + 1) |-> IF k < i THEN s[k] ELSE IF k = i THEN c ELSE s[k - 1]] :
        i \in 1..(Len(s) + 1), c \in LowerChars}

Deleted(s) ==
    {[k \in 1..(Len(s) - 1) |-> IF k < i THEN s[k] ELSE s[k + 1]] : i \in 1..Len(s)}

Substituted(s) ==
    {[s EXCEPT ![i] = c] : i \in 1..Len(s), c \in LowerChars}

OneEdit(s) ==
    (IF Len(s) <= MaxStr THEN Inserted(s) ELSE {}) \cup Deleted(s) \cup Substituted(s)

(* the least number of edits that lead from a string of S to t *)
RECURSIVE EditsFrom(_, _, _)
EditsFrom(S, t, n) ==
    IF t \in S THEN n
    ELSE EditsFrom(S \cup UNION {OneEdit(s) : s \in S}, t, n + 1)

EditDistance(a, b) == EditsFrom({a}, b, 0)

(* C19: levenshtein_distance(a, b) is the least number of insertions,      *)
(* deletions and substitutions of one character that turn lower(a) into    *)
(* lower(b), and 0 when a and b are equal ignoring case.                   *)
C19_DistanceIsEditDistance ==
    call.fn = "levenshtein_distance" =>
        /\ call.distance = EditDistance(str_lower(call.s1), str_lower(call.s2))
        /\ str_lower(call.s1) = str_lower(call.s2) => call.distance = 0

(* two strings that differ, one of them with an upper-case letter, at      *)
(* distance 2 or more                                                      *)
C19_Witness ==
    /\ call.fn = "levenshtein_distance"
    /\ call.s1 # str_lower(call.s1)
    /\ Len(call.s1) # Len(call.s2)
    /\ call.distance >= 2

----------------------------------------------------------------------------
(* The score of query against the window of text that starts at offset i *)
WindowScore(q, t, i) ==
    Score(Len(q) - EditDistance(q, Slice(t, i, Len(q))), Len(q))

(* the greatest score of the set S *)
MaxScore(S) == CHOOSE m \in S : \A x \in S : ~ScoreGreater(x, m)

(* The similarity as specified, for the lower-case strings q and t *)
SimilarityReference(q, t) ==
    IF Len(q) >= Len(t)
    THEN IF Max2(Len(q), Len(t)) = 0 THEN Score(1, 1)
         ELSE Score(Max2(Len(q), Len(t)) - EditDistance(q, t), Max2(Len(q), Len(t)))
    ELSE MaxScore({WindowScore(q, t, i) : i \in 0..(Len(t) - Len(q))})

(* C20: for a query at least as long as the text, or not empty,            *)
(* levenshtein_similarity returns the reference: 1 - distance / max length *)
(* (1.0 for two empty strings), or, for a query shorter than the text, the *)
(* greatest of 1 - distance / |query| over every window of the text.       *)
C20_SimilarityIsReference ==
    (/\ call.fn = "levenshtein_similarity"
     /\ (Len(call.s1) >= Len(call.s2) \/ Len(call.s1) > 0)) =>
        /\ ~call.raised
        /\ ScoreEqual(call.score,
                      SimilarityReference(str_lower(call.s1), str_lower(call.s2)))

(* a query of one character against a text of three: the first window      *)
(* does not match, the second matches and ends the loop before the third   *)
C20_Witness ==
    /\ call.fn = "levenshtein_similarity"
    /\ Len(call.s1) = 1 /\ Len(call.s2) = 3
    /\ char_lower(call.s2[1]) # char_lower(call.s1[1])
    /\ char_lower(call.s2[2]) = char_lower(call.s1[1])
    /\ char_lower(call.s2[3]) # char_lower(call.s1[1])
    /\ ScoreEqual(call.score, Score(1, 1))

----------------------------------------------------------------------------
(* C21: every value levenshtein_similarity returns is a number of the      *)
(* closed interval from 0.0 to 1.0.                                        *)
C21_SimilarityInUnitInterval ==
    (call.fn = "levenshtein_similarity" /\ ~call.raised) =>
        /\ call.score.den > 0
        /\ 0 <= call.score.num
        /\ call.score.num <= call.score.den

(* a query longer than the text at a distance strictly between 0 and the   *)
(* greater length, and the two ends of the interval                        *)
C21_Witness ==
    /\ call.fn = "levenshtein_similarity"
    /\ ~call.raised
    /\ Len(call.s1) > Len(call.s2)
    /\ 0 < call.score.num
    /\ call.score.num < call.score.den

(* query occurs in text, ignoring case, as a run of consecutive characters *)
OccursIn(query, text) ==
    \E i \in 0..(Len(text) - Len(query)) :
        Slice(str_lower(text), i, Len(query)) = str_lower(query)

(* C22: for a non-empty query that occurs in text ignoring case, at any    *)
(* position, levenshtein_similarity returns 1.0; so similarity(a, a) = 1.0 *)
(* for every non-empty a.                                                  *)
C22_SubstringScoresOne ==
    (/\ call.fn = "levenshtein_similarity"
     /\ Len(call.s1) > 0
     /\ OccursIn(call.s1, call.s2)) =>
        /\ ~call.raised
        /\ ScoreEqual(call.score, Score(1, 1))

(* a query of two characters found only at the end of a text of three, in  *)
(* the other case                                                          *)
C22_Witness ==
    /\ call.fn = "levenshtein_similarity"
    /\ Len(call.s1) = 2 /\ Len(call.s2) = 3
    /\ Slice(call.s2, 1, 2) # call.s1
    /\ Slice(str_lower(call.s2), 1, 2) = str_lower(call.s1)
    /\ Slice(str_lower(call.s2), 0, 2) # str_lower(call.s1)
    /\ ScoreEqual(call.score, Score(1, 1))

----------------------------------------------------------------------------
(* SpecSearch: search_by_similarity called with a query, a list of at most *)
(* MaxItems candidates and a threshold.  The item of a candidate is its    *)
(* position in the list, so that two candidates of the same text differ.   *)

SearchQueries == {<<>>, <<"a">>, <<"A", "b">>}
SearchTexts == {<<>>, <<"a">>, <<"a", "b">>, <<"b", "a">>}
Thresholds == {Score(0, 1), Score(1, 2), Score(1, 1)}

Candidates ==
    {[i \in DOMAIN texts |-> [text |-> texts[i], item |-> i]] :
        texts \in SeqsUpTo(SearchTexts, MaxItems)}

NoGraph ==
    /\ users = {}
    /\ tags = EmptyGraph.tags
    /\ has_tag = EmptyGraph.has_tag
    /\ relations = EmptyGraph.relations
    /\ tag_user_name_unique = FALSE
    /\ request = NoRequest
    /\ response = NoResponse
    /\ before = EmptyGraph
    /\ merging = NoMerging

InitSearch ==
    /\ NoGraph
    /\ \E q \in SearchQueries, items \in Candidates, t \in Thresholds :
           call = [NoCall EXCEPT !.fn = "search", !.s1 = q, !.items = items,
                                 !.threshold = t]

NextSearch == SearchBySimilarity

SpecSearch == InitSearch /\ [][NextSearch]_vars

SearchReturned == call.fn = "search_by_similarity" /\ ~call.raised

(* the entries of the result for the candidate at position i *)
EntriesOf(i) == {k \in DOMAIN call.results : call.results[k].item = i}

(* C23: search_by_similarity returns the candidates whose similarity to    *)
(* the query is at least the threshold, each once and with that            *)
(* similarity, and no other; and the result is what remains of the result  *)
(* for any lower threshold when the entries below the threshold are left   *)
(* out.                                                                    *)
C23_ExactlyTheMatches ==
    SearchReturned =>
        /\ \A i \in DOMAIN call.items :
               LET similarity == levenshtein_similarity(call.s1, call.items[i].text).score IN
               IF ~ScoreGreater(call.threshold, similarity)
               THEN /\ Cardinality(EntriesOf(i)) = 1
                    /\ \A k \in EntriesOf(i) : call.results[k].score = similarity
               ELSE EntriesOf(i) = {}
        /\ \A k \in DOMAIN call.results : call.results[k].item \in DOMAIN call.items
        /\ \A t1 \in Thresholds :
               ~ScoreGreater(t1, call.threshold) =>
                   call.results =
                       SelectSeq(search_by_similarity(call.s1, call.items, t1).results,
                                 LAMBDA e : ~ScoreGreater(call.threshold, e.score))

(* two candidates: one scores exactly the threshold and is kept, the      *)
(* other scores less and is dropped                                        *)
C23_Witness ==
    /\ SearchReturned
    /\ Len(call.items) = 2
    /\ Len(call.results) = 1
    /\ ScoreGreater(call.threshold, Score(0, 1))
    /\ ScoreEqual(call.results[1].score, call.threshold)
    /\ ScoreGreater(Score(1, 1), call.results[1].score)

(* C24: the result is in order of non-increasing score, its first entry    *)
(* has the greatest similarity of all candidates, and entries of equal     *)
(* score are in the order of the input list.                               *)
C24_SortedAndStable ==
    SearchReturned =>
        /\ \A j, k \in DOMAIN call.results :
               j < k =>
                   /\ ~ScoreGreater(call.results[k].score, call.results[j].score)
                   /\ ScoreEqual(call.results[j].score, call.results[k].score)
                          => call.results[j].item < call.results[k].item
        /\ call.results # <<>> =>
               \A i \in DOMAIN call.items :
                   ~ScoreGreater(levenshtein_similarity(call.s1, call.items[i].text).score,
                                 call.results[1].score)

(* the second and third candidates score the same and more than the       *)
(* first: the sort puts them first, in the order of the input              *)
C24_Witness ==
    /\ SearchReturned
    /\ Len(call.results) = 3
    /\ call.results[1].item = 2
    /\ call.results[2].item = 3
    /\ call.results[3].item = 1
    /\ ScoreEqual(call.results[1].score, call.results[2].score)

----------------------------------------------------------------------------
(* C25: no call of levenshtein_similarity or search_by_similarity raises:  *)
(* the first returns a number and the second a list, for every query,      *)
(* text and threshold, the empty strings included.                         *)
C25_NeverRaises ==
    call.fn \in {"levenshtein_similarity", "search_by_similarity"} => ~call.raised

----------------------------------------------------------------------------
(* SpecSearchUrls: GET /urls/search/ for a user who owns at most MaxOwned  *)
(* URLs.  The item of a URL is its position in the list the repository     *)
(* returns.                                                                *)

UrlQueries == {<<"a">>, <<"A", "b">>}
Titles == {Absent, Text(<<>>), Text(<<"a">>), Text(<<"a", "b">>)}
Descriptions == {Absent, Text(<<"b">>)}
UrlTexts == {<<"a">>, <<"b", "a">>}
Limits == {1, 2}

OwnedUrls ==
    UNION {{[i \in 1..n |-> [title |-> t[i], description |-> d[i], url |-> u[i], item |-> i]] :
               t \in [1..n -> Titles], d \in [1..n -> Descriptions], u \in [1..n -> UrlTexts]} :
           n \in 0..MaxOwned}

InitSearchUrls ==
    /\ NoGraph
    /\ \E q \in UrlQueries, all_urls \in OwnedUrls, t \in Thresholds, l \in Limits :
           call = [NoCall EXCEPT !.fn = "search", !.s1 = q, !.items = all_urls,
                                 !.threshold = t, !.limit = l]

NextSearchUrls == SearchUrls

SpecSearchUrls == InitSearchUrls /\ [][NextSearchUrls]_vars

(* The score the claim gives the URL at position i: an absent title or     *)
(* description contributes no text                                         *)
TextOrEmpty(field) == IF field.present THEN field.text ELSE <<>>

UrlScore(i) ==
    LET url == call.items[i]
        title_similarity == levenshtein_similarity(call.s1, TextOrEmpty(url.title)).score
        full_similarity ==
            levenshtein_similarity(call.s1,
                Strip(TextOrEmpty(url.title) \o <<" ">> \o TextOrEmpty(url.description)
                      \o <<" ">> \o url.url)).score
    IN  weighted_similarity(title_similarity, full_similarity)

UrlsAtThreshold == {i \in DOMAIN call.items : ~ScoreGreater(call.threshold, UrlScore(i))}

(* C26: search_urls scores every URL of the user, also one with no title   *)
(* or no description, and returns the URLs whose score is at least the     *)
(* threshold, each once, in order of non-increasing score, cut to limit:   *)
(* no URL left out scores more than one returned.                          *)
C26_SearchUrlsRanks ==
    call.fn = "search_urls" =>
        /\ ~call.raised
        /\ Len(call.results) = Min({call.limit, Cardinality(UrlsAtThreshold)})
        /\ \A k \in DOMAIN call.results : call.results[k] \in UrlsAtThreshold
        /\ \A j, k \in DOMAIN call.results :
               j < k => /\ call.results[j] # call.results[k]
                        /\ ~ScoreGreater(UrlScore(call.results[k]), UrlScore(call.results[j]))
        /\ \A i \in UrlsAtThreshold :
               (\A k \in DOMAIN call.results : call.results[k] # i) =>
                   \A k \in DOMAIN call.results :
                       ~ScoreGreater(UrlScore(i), UrlScore(call.results[k]))

----------------------------------------------------------------------------
(* C27: levenshtein_distance(a, b) = levenshtein_distance(b, a) for all    *)
(* strings a and b.                                                        *)
C27_DistanceSymmetric ==
    call.fn = "levenshtein_distance" =>
        call.distance = levenshtein_distance(call.s2, call.s1)

(* two strings of different lengths that differ in more than their case *)
C27_Witness ==
    /\ call.fn = "levenshtein_distance"
    /\ Len(call.s1) < Len(call.s2)
    /\ call.s1 # <<>>
    /\ call.distance > Len(call.s2) - Len(call.s1)

----------------------------------------------------------------------------
(* SpecTriangle: levenshtein_distance called with strings a and c, next to *)
(* a third string b, each of fewer than MaxStr characters                  *)

ShortStrings == SeqsUpTo(Chars, MaxStr - 1)

InitTriangle ==
    /\ NoGraph
    /\ \E a, b, c \in ShortStrings :
           call = [NoCall EXCEPT !.fn = "arguments", !.s1 = a, !.s2 = c, !.s3 = b]

NextTriangle == LevenshteinDistance

SpecTriangle == InitTriangle /\ [][NextTriangle]_vars

(* C28: levenshtein_distance(a, c) <= levenshtein_distance(a, b) +         *)
(* levenshtein_distance(b, c) for all strings a, b and c.                  *)
C28_TriangleInequality ==
    call.fn = "levenshtein_distance" =>
        call.distance <= levenshtein_distance(call.s1, call.s3)
                           + levenshtein_distance(call.s3, call.s2)

(* three different strings where the two sides are equal: b lies on a      *)
(* shortest way from a to c                                                *)
C28_Witness ==
    /\ call.fn = "levenshtein_distance"
    /\ call.s1 # call.s3 /\ call.s3 # call.s2
    /\ call.distance >= 2
    /\ call.distance = levenshtein_distance(call.s1, call.s3)
                         + levenshtein_distance(call.s3, call.s2)

----------------------------------------------------------------------------
(* SpecFrame: the user owns one more tag, Bystander, that no merge request *)
(* names; URLs are tagged with it and with the other tags, relationships   *)
(* are created between it and the other tags, and the other tags are       *)
(* merged                                                                  *)

Bystander == MaxTags + 1

AllTagIds == TagIds \cup {Bystander}

FrameGraph ==
    Graph([t \in {Bystander} |-> Tag("c", "#111", "u1", FALSE)],
          [e \in ResourceIds \X AllTagIds |-> 0],
          [e \in valid_types \X AllTagIds \X AllTagIds |-> 0])

InitFrame ==
    /\ users = Users
    /\ tags = FrameGraph.tags
    /\ has_tag = FrameGraph.has_tag
    /\ relations = FrameGraph.relations
    /\ tag_user_name_unique = FALSE
    /\ request = NoRequest
    /\ response = NoResponse
    /\ before = FrameGraph
    /\ merging = NoMerging
    /\ call = NoCall

NextFrame ==
    \/ CreateTag(CreateTagRequests({"u1"}, {"a", "b"}, {FALSE}))
    \/ AddTagToUrl(AddTagRequestsOf(AllTagIds, {1}))
    \/ CreateParentOfRelation(
           RelationRequests("create_parent_of_relation", {1, 2}, {Bystander}))
    \/ CreateRelatedToRelation(
           RelationRequests("create_related_to_relation", {Bystander}, {1, 2}))
    \/ CreateComposedOfRelation(
           RelationRequests("create_composed_of_relation", {1}, {2}))
    \/ MergeTags(MergeRequestsOf({"u1"}, [1..2 -> TagIds], {"m"}))
    \/ Respond

SpecFrame == InitFrame /\ [][NextFrame]_vars

(* the source tags the merge deleted *)
DeletedSources == (DOMAIN before.tags \ DOMAIN tags) \cap SourceIds

(* C29: a merge changes nothing outside its source set: every tag not in   *)
(* source_tag_ids keeps its existence, name, color and is_system; every    *)
(* HAS_TAG edge to a tag outside the source set is unchanged; and every    *)
(* relationship edge not incident to a deleted source tag, the target's    *)
(* edges included, is unchanged.                                           *)
C29_MergeFrame ==
    MergeAnswered =>
        /\ \A t \in AllTagIds \ SourceIds :
            /\ t \in DOMAIN tags <=> t \in DOMAIN before.tags
            /\ t \in DOMAIN before.tags =>
                /\ tags[t].name = before.tags[t].name
                /\ tags[t].color = before.tags[t].color
                /\ tags[t].is_system = before.tags[t].is_system
        /\ \A e \in DOMAIN has_tag :
            e[2] \notin SourceIds => has_tag[e] = before.has_tag[e]
        /\ \A e \in DOMAIN relations :
            (e[2] \notin DeletedSources /\ e[3] \notin DeletedSources)
                => relations[e] = before.relations[e]

(* a merge deleted a source tag and its edge to Bystander, while a URL of  *)
(* the deleted tag is tagged with Bystander and the target and Bystander   *)
(* have relationship edges                                                 *)
C29_Witness ==
    /\ MergeSucceeded
    /\ \E d \in DeletedSources, u \in UrlIds :
        /\ before.has_tag[<<u, d>>] > 0
        /\ has_tag[<<u, Bystander>>] > 0
        /\ before.relations[<<PARENT_OF, d, Bystander>>] > 0
    /\ relations[<<PARENT_OF, TargetId, Bystander>>] > 0
    /\ relations[<<RELATED_TO, Bystander, TargetId>>] > 0

----------------------------------------------------------------------------
(* tag o is in the related_to list get_with_relations gives for tag t *)
ListsRelated(db, t, o) ==
    \E answer \in get_with_relations(db, t) : answer["related_to"][o] > 0

(* C30: whenever related_to of tag X contains tag Y, delete_relation of    *)
(* RELATED_TO from X to Y succeeds, and afterwards Y is absent from        *)
(* related_to of X and X from related_to of Y, whichever tag was the       *)
(* source when the relation was created and also when it was created in    *)
(* both directions.                                                        *)
C30_RelatedToDeletedSymmetrically ==
    (/\ DeleteRelationAnswered
     /\ request.kind = RELATED_TO
     /\ ListsRelated(before, request.id, request.to))
        => /\ response.status = HTTP_204_NO_CONTENT
           /\ ~ListsRelated(DB, request.id, request.to)
           /\ ~ListsRelated(DB, request.to, request.id)

====
